---- MODULE Spec2Model ----
(***************************************************************************)
(* Modem session engine of Pi-SIM800L-database.                            *)
(*                                                                         *)
(* Spec     the SMS manager of Workspace/sms_mgr_db_api.py: foreground     *)
(*          callers (send_command, send_sms), the _sms_listener thread and *)
(*          the modem on the other end of the bit-banged serial line.      *)
(* SpecReg  check_network_registration of Workspace/recv_sms.py (the same  *)
(*          procedure is in Workspace/send_sms.py).                        *)
(* SpecHat  sim800l_hat.py: send_at and send_sms called from the battery   *)
(*          and request threads, and the capture loop of the main thread.  *)
(* SpecTime the time a command takes: send_command, send_at and           *)
(*          uart_read of the manager against a clock of 10 ms ticks.       *)
(* SpecSession  the start-up sequences: run_sms_receiver of recv_sms.py    *)
(*          and initialize_module of the manager.                          *)
(* SpecListen   start_listening, stop_listening and the listener threads   *)
(*          of the manager.                                                *)
(* SpecBattery  the battery voltage history of sim800l_hat.py under two    *)
(*          callers of get_battery_voltage.                                *)
(* SpecTelemetry  the telemetry functions: charging status, the parsing    *)
(*          of the AT+CBC answer and the signal quality.                   *)
(* SpecPolicy  the time-out send_command chooses for a command.            *)
(* SpecFlush   flush_uart and the read that follows it.                    *)
(* SpecUnlock  the SIM PIN: check_cpin and unlock_sim of recv_sms.py,      *)
(*          initialize_module of the manager, the set-up of sim800l_hat.py.*)
(* SpecRead    read_single_sms of recv_sms.py and its fallback.            *)
(* SpecFail    how send_command of the manager and wait_for_modem of       *)
(*          sim800l_hat.py end when they fail.                             *)
(* SpecSamplers  the samplers of sim800l_hat.py called again and again.    *)
(* SpecSetup   the set-up the manager's listener and start-up depend on.   *)
(* SpecDb      db_execute of sim800l_hat.py and its worker thread.         *)
(* SpecCmt     the capture loop of sim800l_hat.py storing +CMT messages.   *)
(* SpecQueue   the queue of received messages of the manager.              *)
(* SpecCheck   check_battery_and_shutdown of sim800l_hat.py.               *)
(* SpecReport  check_and_send_report of sim800l_hat.py and the requests    *)
(*          that share its settings.                                       *)
(***************************************************************************)
EXTENDS Integers, Sequences, FiniteSets, TLC

\* ------------------------------------------------------------------------
\* Bounds of the model
\* ------------------------------------------------------------------------
MaxCalls == 1       \* foreground operations started in one behaviour
MaxNotifs == 1      \* new-message notifications the modem raises

\* ------------------------------------------------------------------------
\* Threads, slots and the bytes on the serial line
\* ------------------------------------------------------------------------
NoThread == "none"
Modem == "modem"
Listener == "listener"
\* The FastAPI endpoints are all "async def": every request runs on the one
\* event-loop thread, so the manager has one foreground caller.
Fg == {"api"}
MgrThreads == Fg \cup {Listener}

\* Slot indices are decimal strings, as the code keeps them (match.group(1)):
\* "1" and "12".
Slots == {<<1>>, <<1, 2>>}
NoIndex == <<>>

\* One unit of modem output.  k: what the text is; c: the thread whose
\* command it answers (Modem for unsolicited text); v: the digits the text
\* carries; n: the slot of the notification the text belongs to (<<>> when
\* it is no notification text).
Item(k, c, v, n) == [k |-> k, c |-> c, v |-> v, n |-> n]

RECURSIVE DigitItems(_, _)
DigitItems(ds, slot) ==
    IF ds = <<>> THEN <<>>
    ELSE <<Item("digit", Modem, <<Head(ds)>>, slot)>> \o DigitItems(Tail(ds), slot)

\* The line  \r\n+CMTI: "SM",<slot>\r\n  as the modem sends it.
NotifyText(slot) ==
    <<Item("cmti", Modem, <<>>, slot)>> \o DigitItems(slot, slot)
        \o <<Item("crlf", Modem, <<>>, slot)>>

\* The modem's answer to a command written by thread t.
Reply(t, op, slot, st) ==
    CASE op = "AT"   -> <<Item("data", t, <<>>, <<>>), Item("ok", t, <<>>, <<>>)>>
      [] op = "BAD"  -> <<Item("error", t, <<>>, <<>>)>>
      [] op = "CMGR" -> IF slot \in st
                        THEN <<Item("cmgr", t, slot, <<>>), Item("ok", t, <<>>, <<>>)>>
                        ELSE <<Item("ok", t, <<>>, <<>>)>>
      [] op = "CMGD" -> <<Item("ok", t, <<>>, <<>>)>>
      [] op = "CMGS" -> <<Item("prompt", t, <<>>, <<>>)>>
      [] op = "BODY" -> <<Item("cmgs", t, <<>>, <<>>), Item("ok", t, <<>>, <<>>)>>

Has(r, kinds) == \E i \in 1..Len(r) : r[i].k \in kinds

\* uart_read: any(terminator in response for '\nOK\r\n', '\nERROR\r\n', '\n> ')
HasTerminal(r) == Has(r, {"ok", "error", "prompt"})

\* send_command(command, wait_time, expected_response): "OK" unless the
\* caller passes another token (send_sms passes ">" with AT+CMGS).
ExpectedAlwaysOk(f) == {"ok"}
Expected(f) == IF f = "sms_cmgs" THEN {"prompt"} ELSE {"ok"}
\* "cmd" is a command the modem accepts, "bad" one it answers with ERROR.
CommandOf(f) ==
    CASE f = "sms_cmgs" -> "CMGS"
      [] f = "bad" -> "BAD"
      [] OTHER -> "AT"
\* send_command: success = expected_response in response
Success(f, r) == Has(r, Expected(f))

\* re.search(r'\+CMTI:\s*"[^"]*",(\d+)', message): leftmost match, digits
\* up to the first non-digit or the end of the chunk that was read.
IsDigit(m, i) == i <= Len(m) /\ m[i].k = "digit"
MatchStarts(m) == {i \in 1..Len(m) : m[i].k = "cmti" /\ IsDigit(m, i + 1)}
FirstMatch(m) == CHOOSE i \in MatchStarts(m) : \A j \in MatchStarts(m) : i <= j
RECURSIVE Digits(_, _)
Digits(m, i) == IF IsDigit(m, i) THEN m[i].v \o Digits(m, i + 1) ELSE <<>>
ParseIndex(m) ==
    IF MatchStarts(m) = {} THEN NoIndex ELSE Digits(m, FirstMatch(m) + 1)
MatchSource(m) ==
    IF MatchStarts(m) = {} THEN NoIndex ELSE m[FirstMatch(m)].n

\* SMS(index=index, ...) built by _read_sms_direct, or None.
NoSms == [index |-> NoIndex, body |-> NoIndex]
CmgrBody(r) == r[CHOOSE i \in 1..Len(r) : r[i].k = "cmgr"].v
ReadSmsResult(index, r) ==
    IF Has(r, {"cmgr"}) THEN [index |-> index, body |-> CmgrBody(r)] ELSE NoSms

\* ------------------------------------------------------------------------
\* State
\* ------------------------------------------------------------------------
VARIABLES
    lock,        \* uart_lock: the thread holding it, or NoThread
    pc,          \* where each thread is
    rx,          \* bytes buffered by bb_serial_read_open on RX_PIN
    pending,     \* modem output not yet on the line
    resp,        \* response accumulated by each thread's uart_read
    rdret,       \* where each thread's uart_read returns to
    fop,         \* the foreground operation and stage each caller is in
    calls,       \* foreground operations started
    store,       \* slots of the modem's storage that hold a message
    nnotif,      \* notifications raised
    autoDelete,  \* AUTO_DELETE_SMS
    lidx,        \* listener: sms_index parsed from the notification
    lsrc,        \* listener: slot of the notification that was matched
    lsms,        \* listener: result of _read_sms_direct
    ltrace,      \* listener: commands written for the current notification
    lost         \* what first happened to a notification the listener missed

\* Registration (check_network_registration, a sequential procedure)
VARIABLES
    rpc,         \* where check_network_registration is
    attempt,     \* the loop variable of "for attempt in range(30)"
    polls,       \* AT+CREG? commands issued
    rres,        \* what the procedure returned
    regEarly,    \* the poll before the loop answered "+CREG: 1,1" or "+CREG: 1,5"
    regLoop,     \* a poll of the loop reported status 1 or 5
    regAny,      \* some poll reported status 1 or 5
    deniedAt,    \* number of the first poll that reported status 3 (0: none)
    reenables,   \* AT+CREG=1 commands issued by the loop
    escalations, \* AT+COPS=0 / AT+CGREG=1 escalations issued by the loop
    rlast,       \* what the last poll of the loop reported: "idle", "other"
    rsent        \* the commands the loop sent on that report

\* One send_at call of the SMS manager on a clock (ticks of 10 ms)
VARIABLES
    tpc,         \* where the call is
    tnow,        \* ticks since send_at was called
    tlockAt,     \* tnow when the call obtained uart_lock
    tdeadline,   \* uart_read: deadline
    tquiet,      \* uart_read: ticks since last_data_time, up to Grace + 1
    tresp,       \* uart_read: what response holds ("none", "partial", "terminal")
    trx,         \* what the RX buffer holds
    tcmd,        \* the command's class and the caller's wait_time
    tbusy        \* another thread holds uart_lock

timeVars == <<tpc, tnow, tlockAt, tdeadline, tquiet, tresp, trx, tcmd, tbusy>>

\* The start-up sequence of a session (run_sms_receiver of recv_sms.py,
\* startup_event / initialize_module of sms_mgr_db_api.py)
VARIABLES
    sengine,     \* which program starts: "recv" or "mgr"
    spin,        \* SIM_PIN is configured
    spc,         \* where the start-up sequence is
    sattempt,    \* test_basic_communication: attempt
    sprobes,     \* AT probes written so far
    spassed,     \* the steps that have succeeded: "comm", "sim", "net"
    sfail,       \* the step that ended the sequence ("none": no failure)
    strace       \* test_basic_communication: its steps and what each saw

sessVars == <<sengine, spin, spc, sattempt, sprobes, spassed, sfail, strace>>

\* Listening control of the SMS manager (start_listening, stop_listening,
\* the loop condition of _sms_listener, the /status endpoint)
VARIABLES
    listening,   \* SMSManager.listening
    ktask,       \* the listener threads started so far and where each is
    kcount,      \* listener threads started so far
    kreq,        \* the request the event loop is serving, and its step
    kdone,       \* the last start/stop request that completed
    kstopped,    \* threads that were running when a stop_listening began
    ksurvived    \* stopped threads that checked the flag and went on

ctlVars == <<listening, ktask, kcount, kreq, kdone, kstopped, ksurvived>>

\* The battery voltage history of sim800l_hat.py (get_battery_voltage)
VARIABLES
    history,     \* battery_voltage_history: the samples, by their numbers
    blog,        \* every sample appended so far, in the order of the appends
    bpc,         \* where each caller of get_battery_voltage is
    bloc,        \* each caller's parsed sample (0: none)
    bcopy,       \* each caller's battery_voltage_history[-20:] not yet assigned
    nsamp,       \* samples taken from the modem so far
    bnew         \* get_battery_voltage calls made in this behaviour

battVars == <<history, blog, bpc, bloc, bcopy, nsamp, bnew>>

\* The telemetry functions: determine_battery_charging_status, the parsing
\* of the AT+CBC answer and get_signal_strength
VARIABLES
    qpc,         \* "ready": the function is about to run; "done": it returned
    qarg,        \* the function and what it is given
    qret         \* what it returned

teleVars == <<qpc, qarg, qret>>

\* flush_uart followed by a read of the receive buffer
VARIABLES
    xpc,         \* where the caller of flush_uart is
    ximpl,       \* whose flush_uart it is: "mgr" or "hat"
    xbuf,        \* bytes in pigpio's receive buffer of RX_PIN
    xcount,      \* count, as the last bb_serial_read returned it
    xsince,      \* bytes that arrived since the last bb_serial_read
    xleft,       \* bytes the modem has still to send
    xcleared     \* bytes flush_uart has read and dropped

flushVars == <<xpc, ximpl, xbuf, xcount, xsince, xleft, xcleared>>

\* The SIM unlock: check_cpin and unlock_sim of recv_sms.py, the PIN part of
\* initialize_module, and the SIM setup of sim800l_hat.py
VARIABLES
    upc,         \* where the engine is
    uengine,     \* "recv", "mgr" or "hat"
    uhaspin,     \* SIM_PIN is not empty
    upinok,      \* SIM_PIN is the PIN of the SIM
    usim,        \* the SIM: "ready", "locked" (SIM PIN) or "puk"
    uleft,       \* PIN attempts the SIM still allows
    utrace,      \* the PIN commands written and what the engine saw of each
    urejected    \* the modem has rejected a submitted PIN

pinVars == <<upc, uengine, uhaspin, upinok, usim, uleft, utrace, urejected>>

\* read_single_sms of recv_sms.py
VARIABLES
    gpc,        \* "start", "fallback", "done"
    gindex,     \* index: the slot asked for
    gauto,      \* auto_delete
    gresp,      \* the lines the modem answers AT+CMGR=<index> with
    glisting,   \* the lines the modem answers AT+CMGL="ALL" with
    gmode,      \* whether the modem acknowledges AT+CMGF=1
    gtrace,     \* the commands written so far
    gret        \* the value returned

readVars == <<gpc, gindex, gauto, gresp, glisting, gmode, gtrace, gret>>

\* send_command of the SMS manager and wait_for_modem of sim800l_hat.py
VARIABLES
    opc,        \* "call", "done"
    oop,        \* "send_command" or "wait_for_modem"
    oconn,      \* self.connected
    oexpect,    \* expected_response
    odb,        \* whether the database accepts a system message
    oraises,    \* whether the serial layer raises in send_at
    oleft,      \* iterations wait_for_modem has left before its deadline
    oraw,       \* the response the last exchange with the modem collected
    oret        \* how the operation ended

failVars == <<opc, oop, oconn, oexpect, odb, oraises, oleft, oraw, oret>>
\* the samplers of sim800l_hat.py: get_battery_voltage, get_signal_strength,
\* get_network_operator
VARIABLES
    ycbc,       \* what the modem answers AT+CBC with
    ycsq,       \* what the modem answers AT+CSQ with
    ycops,      \* what the modem answers AT+COPS? with
    yhist,      \* battery_voltage_history, the voltages in thousandths of a volt
    ylast,      \* last_battery_voltage: <<>> is None
    ystatus,    \* battery_status
    ysent,      \* the commands written to the modem so far
    ylog        \* the calls made: the sampler, its result, the state it left

sampVars == <<ycbc, ycsq, ycops, yhist, ylast, ystatus, ysent, ylog>>

\* the set-up of the listener in the three programs
VARIABLES
    zengine,    \* "recv", "mgr" or "hat"
    zpc,        \* "textmode", "notify", "listening", "polling", "failed"
    ztext,      \* the answer to AT+CMGF=1 ("none": not written yet)
    znotify,    \* the answer to AT+CNMI=... ("none": not written yet)
    zseen       \* the notifications the listener has processed

setupVars == <<zengine, zpc, ztext, znotify, zseen>>

\* db_execute and the DBWorker thread of sim800l_hat.py
VARIABLES
    dpc,        \* each caller of db_execute: "idle", "wait"
    dqueue,     \* db_queue: the result_id of each query put
    dresults,   \* db_result_queue: (result_id, result, error)
    dret,       \* what each caller's last db_execute returned or raised
    dcalls,     \* the calls of db_execute each caller has made
    ddropped    \* the results a caller took off the queue and threw away

dbVars == <<dpc, dqueue, dresults, dret, dcalls, ddropped>>

\* the capture loop of sim800l_hat.py on direct delivery (+CMT:)
VARIABLES
    kmsgs,      \* the messages the modem delivers in the behaviour
    kin,        \* the lines the modem has still to put on the line
    kbuf,       \* buffer: the complete lines read and not yet taken
    kpc,        \* "read", "lines", "collect", "store"
    ksender,    \* sender of the message being collected
    kbody,      \* body: the lines collected for it
    krows       \* the rows inserted into the sms table

cmtVars == <<kmsgs, kin, kbuf, kpc, ksender, kbody, krows>>

\* received_sms_queue of the manager: the listener's put and
\* get_received_messages
VARIABLES
    wqueue,     \* received_sms_queue: the records, named by the order of put
    wput,       \* the records the listener has put so far
    wpc,        \* each caller of get_received_messages: "idle", "loop"
    wlocal,     \* messages: the list each running call has built so far
    wgets,      \* the calls of get_received_messages begun
    wreturned   \* the lists returned, with their callers, in order of return

queueVars == <<wqueue, wput, wpc, wlocal, wgets, wreturned>>

\* check_battery_and_shutdown of sim800l_hat.py
VARIABLES
    henabled,   \* ENABLE_AUTO_SHUTDOWN
    hchecks,    \* the checks made so far
    hvolt,      \* the voltage the last check sampled: <<>> when it had none
    hwarn,      \* low_battery_warnings
    hshut,      \* the shutdowns initiated
    hprev       \* the counter and the shutdowns before the last check

checkVars == <<henabled, hchecks, hvolt, hwarn, hshut, hprev>>

\* check_and_send_report and send_report_now of sim800l_hat.py
VARIABLES
    enow,       \* time.time(), in ticks
    eenabled,   \* ENABLE_SMS_REPORTS
    erecipient, \* SMS_REPORT_RECIPIENT is set
    elast,      \* SMS_REPORT_LAST_SENT
    epc,        \* the scheduler: "sleep", or "report" between check and send
    ecur,       \* current_time of the check in progress
    echecks,    \* the checks made so far
    esent       \* the scheduler's last send_sms call, <<>> before the first

reportVars == <<enow, eenabled, erecipient, elast, epc, ecur, echecks, esent>>

endVars == <<sampVars, setupVars, dbVars, cmtVars, queueVars, checkVars, reportVars>>
lastVars == <<readVars, failVars, endVars>>

\* the variables of the smaller models that follow
tailVars == <<flushVars, pinVars, lastVars>>

\* the state outside the SMS engines and the registration procedure
auxVars == <<timeVars, sessVars, ctlVars, battVars, teleVars, tailVars>>

regVars == <<rpc, attempt, polls, rres, regEarly, regLoop, regAny, deniedAt,
             reenables, escalations, rlast, rsent>>

engineVars == <<lock, pc, rx, pending, resp, rdret, fop, calls, store, nnotif,
                autoDelete, lidx, lsrc, lsms, ltrace, lost>>

modemVars == <<pending, store, nnotif>>
\* what no step of the SMS engines changes
frame == <<autoDelete, regVars, auxVars>>
listenerVars == <<lidx, lsrc, lsms, ltrace>>
callerVars == <<fop, calls>>

vars == <<engineVars, regVars, auxVars>>
\* what no step of check_network_registration changes
regFrame == <<engineVars, auxVars>>

NoCmd == [class |-> "none", delay |-> 0]

\* no timed call is under way
TimeIdle ==
    /\ tpc = "off"
    /\ tnow = 0
    /\ tlockAt = 0
    /\ tdeadline = 0
    /\ tquiet = 0
    /\ tresp = "none"
    /\ trx = "none"
    /\ tcmd = NoCmd
    /\ tbusy = FALSE

\* no start-up sequence is under way
SessIdle ==
    /\ sengine = "none"
    /\ spin = FALSE
    /\ spc = "off"
    /\ sattempt = 0
    /\ sprobes = 0
    /\ spassed = {}
    /\ sfail = "none"
    /\ strace = <<>>

\* the manager has been constructed: not listening, no listener thread
CtlIdle ==
    /\ listening = FALSE
    /\ ktask = <<>>
    /\ kcount = 0
    /\ kreq = "none"
    /\ kdone = "none"
    /\ kstopped = {}
    /\ ksurvived = {}

Samplers == {"battery", "flask"}

\* battery_voltage_history = [], nobody in get_battery_voltage
BattIdle ==
    /\ history = <<>>
    /\ blog = <<>>
    /\ bpc = [t \in Samplers |-> "idle"]
    /\ bloc = [t \in Samplers |-> 0]
    /\ bcopy = [t \in Samplers |-> <<>>]
    /\ nsamp = 0
    /\ bnew = 0

NoArg == [fn |-> "none"]

\* no telemetry function is being followed
TeleIdle ==
    /\ qpc = "off"
    /\ qarg = NoArg
    /\ qret = "none"

\* nobody is in flush_uart
FlushIdle ==
    /\ xpc = "off"
    /\ ximpl = "none"
    /\ xbuf = 0
    /\ xcount = 0
    /\ xsince = 0
    /\ xleft = 0
    /\ xcleared = 0

\* no SIM unlock is being followed
PinIdle ==
    /\ upc = "off"
    /\ uengine = "none"
    /\ uhaspin = FALSE
    /\ upinok = FALSE
    /\ usim = "ready"
    /\ uleft = 0
    /\ utrace = <<>>
    /\ urejected = FALSE

ReadIdle ==
    /\ gpc = "idle"
    /\ gindex = 0
    /\ gauto = FALSE
    /\ gresp = <<>>
    /\ glisting = <<>>
    /\ gmode = FALSE
    /\ gtrace = <<>>
    /\ gret = [kind |-> "pending"]

FailIdle ==
    /\ opc = "idle"
    /\ oop = "none"
    /\ oconn = FALSE
    /\ oexpect = "OK"
    /\ odb = FALSE
    /\ oraises = FALSE
    /\ oleft = 0
    /\ oraw = <<>>
    /\ oret = [kind |-> "pending"]

SampIdle ==
    /\ ycbc = 0
    /\ ycsq = 0
    /\ ycops = 0
    /\ yhist = <<>>
    /\ ylast = <<>>
    /\ ystatus = "unknown"
    /\ ysent = {}
    /\ ylog = <<>>

SetupIdle ==
    /\ zengine = "none"
    /\ zpc = "idle"
    /\ ztext = "none"
    /\ znotify = "none"
    /\ zseen = <<>>

DbIdle ==
    /\ dpc = <<>>
    /\ dqueue = <<>>
    /\ dresults = <<>>
    /\ dret = <<>>
    /\ dcalls = <<>>
    /\ ddropped = {}

CmtIdle ==
    /\ kmsgs = 0
    /\ kin = <<>>
    /\ kbuf = <<>>
    /\ kpc = "idle"
    /\ ksender = 0
    /\ kbody = <<>>
    /\ krows = <<>>

QueueIdle ==
    /\ wqueue = <<>>
    /\ wput = 0
    /\ wpc = <<>>
    /\ wlocal = <<>>
    /\ wgets = 0
    /\ wreturned = <<>>

CheckIdle ==
    /\ henabled = FALSE
    /\ hchecks = 0
    /\ hvolt = <<>>
    /\ hwarn = 0
    /\ hshut = 0
    /\ hprev = <<0, 0>>

ReportIdle ==
    /\ enow = 0
    /\ eenabled = FALSE
    /\ erecipient = FALSE
    /\ elast = 0
    /\ epc = "sleep"
    /\ ecur = 0
    /\ echecks = 0
    /\ esent = <<>>

EndIdle == SampIdle /\ SetupIdle /\ DbIdle /\ CmtIdle /\ QueueIdle /\ CheckIdle /\ ReportIdle

LastIdle == ReadIdle /\ FailIdle /\ EndIdle

TailIdle == FlushIdle /\ PinIdle /\ LastIdle

AuxIdle ==
    TimeIdle /\ SessIdle /\ CtlIdle /\ BattIdle /\ TeleIdle /\ TailIdle

\* check_network_registration has not been entered
RegIdle ==
    /\ rpc = "off"
    /\ attempt = 0
    /\ polls = 0
    /\ rres = "none"
    /\ regEarly = FALSE
    /\ regLoop = FALSE
    /\ regAny = FALSE
    /\ deniedAt = 0
    /\ reenables = 0
    /\ escalations = 0
    /\ rlast = "none"
    /\ rsent = <<>>

Init ==
    /\ RegIdle
    /\ AuxIdle
    /\ lock = NoThread
    /\ pc = [t \in MgrThreads |-> IF t = Listener THEN "l_lock" ELSE "idle"]
    /\ rx = <<>>
    /\ pending = <<>>
    /\ resp = [t \in MgrThreads |-> <<>>]
    /\ rdret = [t \in MgrThreads |-> "idle"]
    /\ fop = [t \in Fg |-> "none"]
    /\ calls = 0
    /\ store = {}
    /\ nnotif = 0
    /\ autoDelete \in BOOLEAN
    /\ lidx = NoIndex
    /\ lsrc = NoIndex
    /\ lsms = NoSms
    /\ ltrace = <<>>
    /\ lost = "none"

\* ------------------------------------------------------------------------
\* The lock and the transport primitives
\* ------------------------------------------------------------------------
\* with uart_lock: (threading.Lock, not re-entrant): blocks until free.
AcquireUnguarded(t) == lock' = t
Acquire(t) == lock = NoThread /\ lock' = t
Release(t) == lock' = NoThread

\* What a reader other than the listener's own poll does to a notification.
Loses(chunk, how) ==
    IF lost = "none" /\ Has(chunk, {"cmti", "digit"}) THEN how ELSE lost

\* flush_uart: bb_serial_read until count == 0; everything read is dropped.
Flush(t, next) ==
    /\ rx' = <<>>
    /\ lost' = Loses(rx, "flushed")
    /\ pc' = [pc EXCEPT ![t] = next]

\* uart_send(cmd): the command goes out; the modem queues its answer.
Send(t, op, slot, next) ==
    /\ pending' = pending \o Reply(t, op, slot, store)
    /\ store' = IF op = "CMGD" THEN store \ {slot} ELSE store
    /\ pc' = [pc EXCEPT ![t] = next]

\* Entry into uart_read(timeout): response = "".
StartRead(t, ret) ==
    /\ resp' = [resp EXCEPT ![t] = <<>>]
    /\ rdret' = [rdret EXCEPT ![t] = ret]
    /\ pc' = [pc EXCEPT ![t] = "rd_poll"]

\* uart_read: a poll that finds bytes.
RdData(t) ==
    /\ pc[t] = "rd_poll"
    /\ rx # <<>>
    /\ resp' = [resp EXCEPT ![t] = @ \o rx]
    /\ rx' = <<>>
    /\ lost' = Loses(rx, "consumed")
    /\ pc' = [pc EXCEPT ![t] = IF HasTerminal(resp[t] \o rx) THEN "rd_trail" ELSE "rd_poll"]
    /\ UNCHANGED <<lock, rdret, callerVars, modemVars, frame, listenerVars>>

\* uart_read: after a terminator, sleep(trailing_delay), one more read, break.
RdTrail(t) ==
    /\ pc[t] = "rd_trail"
    /\ resp' = [resp EXCEPT ![t] = @ \o rx]
    /\ rx' = <<>>
    /\ lost' = Loses(rx, "consumed")
    /\ pc' = [pc EXCEPT ![t] = rdret[t]]
    /\ rdret' = [rdret EXCEPT ![t] = "idle"]
    /\ UNCHANGED <<lock, callerVars, modemVars, frame, listenerVars>>

\* uart_read: data was received and nothing new for trailing_delay.
RdSilence(t) ==
    /\ pc[t] = "rd_poll"
    /\ rx = <<>>
    /\ resp[t] # <<>>
    /\ pc' = [pc EXCEPT ![t] = rdret[t]]
    /\ rdret' = [rdret EXCEPT ![t] = "idle"]
    /\ UNCHANGED <<lock, rx, resp, lost, callerVars, modemVars, frame, listenerVars>>

\* uart_read: the deadline passes.
RdDeadline(t) ==
    /\ pc[t] = "rd_poll"
    /\ pc' = [pc EXCEPT ![t] = rdret[t]]
    /\ rdret' = [rdret EXCEPT ![t] = "idle"]
    /\ UNCHANGED <<lock, rx, resp, lost, callerVars, modemVars, frame, listenerVars>>

\* ------------------------------------------------------------------------
\* The modem
\* ------------------------------------------------------------------------
\* A message arrives: it is stored in a free slot and announced (CNMI=2,1).
ModemNotify(s) ==
    /\ nnotif < MaxNotifs
    /\ s \notin store
    /\ store' = store \cup {s}
    /\ nnotif' = nnotif + 1
    /\ pending' = pending \o NotifyText(s)
    /\ UNCHANGED <<lock, pc, rx, resp, rdret, lost, callerVars, frame, listenerVars>>

\* The next piece of modem output reaches the RX buffer.
ModemEmit ==
    /\ pending # <<>>
    /\ rx' = Append(rx, Head(pending))
    /\ pending' = Tail(pending)
    /\ UNCHANGED <<lock, pc, resp, rdret, lost, store, nnotif, callerVars, frame, listenerVars>>

\* ------------------------------------------------------------------------
\* Foreground callers: SMSManager.send_command / send_at
\* ------------------------------------------------------------------------
CallSendCommand(t, c) ==
    /\ pc[t] = "idle"
    /\ calls < MaxCalls
    /\ calls' = calls + 1
    /\ fop' = [fop EXCEPT ![t] = c]
    /\ pc' = [pc EXCEPT ![t] = "sa_lock"]
    /\ UNCHANGED <<lock, rx, resp, rdret, lost, modemVars, frame, listenerVars>>

\* send_sms begins with send_command("AT+CMGF=1", 1, "OK").
CallSendSms(t) ==
    /\ pc[t] = "idle"
    /\ calls < MaxCalls
    /\ calls' = calls + 1
    /\ fop' = [fop EXCEPT ![t] = "sms_cmgf"]
    /\ pc' = [pc EXCEPT ![t] = "sa_lock"]
    /\ UNCHANGED <<lock, rx, resp, rdret, lost, modemVars, frame, listenerVars>>

SaAcquire(t) ==
    /\ pc[t] = "sa_lock"
    /\ Acquire(t)
    /\ pc' = [pc EXCEPT ![t] = "sa_flush"]
    /\ UNCHANGED <<rx, resp, rdret, lost, callerVars, modemVars, frame, listenerVars>>

SaFlush(t) ==
    /\ pc[t] = "sa_flush"
    /\ Flush(t, "sa_send")
    /\ UNCHANGED <<lock, resp, rdret, callerVars, modemVars, frame, listenerVars>>

\* uart_send(cmd); time.sleep(delay); response = uart_read(timeout)
SaSend(t) ==
    /\ pc[t] = "sa_send"
    /\ pending' = pending \o Reply(t, CommandOf(fop[t]), NoIndex, store)
    /\ StartRead(t, "sa_ret")
    /\ UNCHANGED <<lock, rx, lost, store, nnotif, callerVars, frame, listenerVars>>

\* send_at returns (the lock is released); send_command computes success;
\* send_sms goes on to its next stage or gives up.
SaReturn(t) ==
    /\ pc[t] = "sa_ret"
    /\ Release(t)
    /\ resp' = [resp EXCEPT ![t] = <<>>]
    /\ LET success == Success(fop[t], resp[t]) IN
           CASE fop[t] = "sms_cmgf" /\ success ->
                    /\ fop' = [fop EXCEPT ![t] = "sms_cmgs"]
                    /\ pc' = [pc EXCEPT ![t] = "sa_lock"]
             [] fop[t] = "sms_cmgs" /\ success ->
                    /\ fop' = [fop EXCEPT ![t] = "sms_body"]
                    /\ pc' = [pc EXCEPT ![t] = "sb_lock"]
             [] OTHER ->
                    /\ fop' = [fop EXCEPT ![t] = "none"]
                    /\ pc' = [pc EXCEPT ![t] = "idle"]
    /\ UNCHANGED <<rx, rdret, lost, calls, modemVars, frame, listenerVars>>

\* ------------------------------------------------------------------------
\* SMSManager.send_sms: the message body
\* ------------------------------------------------------------------------
SbAcquire(t) ==
    /\ pc[t] = "sb_lock"
    /\ Acquire(t)
    /\ pc' = [pc EXCEPT ![t] = "sb_flush"]
    /\ UNCHANGED <<rx, resp, rdret, lost, callerVars, modemVars, frame, listenerVars>>

SbFlush(t) ==
    /\ pc[t] = "sb_flush"
    /\ Flush(t, "sb_send")
    /\ UNCHANGED <<lock, resp, rdret, callerVars, modemVars, frame, listenerVars>>

\* message bytes, then Ctrl+Z, then initial_response = uart_read(timeout=5)
SbSend(t) ==
    /\ pc[t] = "sb_send"
    /\ pending' = pending \o Reply(t, "BODY", NoIndex, store)
    /\ StartRead(t, "sb_check")
    /\ UNCHANGED <<lock, rx, lost, store, nnotif, callerVars, frame, listenerVars>>

\* if initial_response and "+CMGS:" not in it and "ERROR" not in it: wait on
SbCheck(t) ==
    /\ pc[t] = "sb_check"
    /\ pc' = [pc EXCEPT ![t] =
                IF resp[t] # <<>> /\ ~Has(resp[t], {"cmgs", "error"})
                THEN "sb_wait" ELSE "sb_ret"]
    /\ UNCHANGED <<lock, rx, resp, rdret, lost, callerVars, modemVars, frame, listenerVars>>

SbWaitData(t) ==
    /\ pc[t] = "sb_wait"
    /\ rx # <<>>
    /\ resp' = [resp EXCEPT ![t] = @ \o rx]
    /\ rx' = <<>>
    /\ lost' = Loses(rx, "consumed")
    /\ pc' = [pc EXCEPT ![t] =
                IF Has(resp[t] \o rx, {"cmgs", "error"}) THEN "sb_trail" ELSE "sb_wait"]
    /\ UNCHANGED <<lock, rdret, callerVars, modemVars, frame, listenerVars>>

SbWaitTrail(t) ==
    /\ pc[t] = "sb_trail"
    /\ resp' = [resp EXCEPT ![t] = @ \o rx]
    /\ rx' = <<>>
    /\ lost' = Loses(rx, "consumed")
    /\ pc' = [pc EXCEPT ![t] = "sb_ret"]
    /\ UNCHANGED <<lock, rdret, callerVars, modemVars, frame, listenerVars>>

SbWaitDeadline(t) ==
    /\ pc[t] = "sb_wait"
    /\ pc' = [pc EXCEPT ![t] = "sb_ret"]
    /\ UNCHANGED <<lock, rx, resp, rdret, lost, callerVars, modemVars, frame, listenerVars>>

\* leaving the with block; send_sms returns
SbReturn(t) ==
    /\ pc[t] = "sb_ret"
    /\ Release(t)
    /\ resp' = [resp EXCEPT ![t] = <<>>]
    /\ fop' = [fop EXCEPT ![t] = "none"]
    /\ pc' = [pc EXCEPT ![t] = "idle"]
    /\ UNCHANGED <<rx, rdret, lost, calls, modemVars, frame, listenerVars>>

\* ------------------------------------------------------------------------
\* SMSManager._sms_listener, _read_sms_direct, _delete_sms_direct
\* ------------------------------------------------------------------------
\* delete_command = f"AT+CMGD={index}"
DeleteSlotFixed(index) == <<1>>
DeleteSlot(index) == index

\* A notification byte the listener's poll read without reading its slot.
Missed(chunk) ==
    \E i \in 1..Len(chunk) :
        /\ chunk[i].k \in {"cmti", "digit"}
        /\ chunk[i].n # ParseIndex(chunk)

\* while self.listening: with uart_lock:
LAcquire ==
    /\ pc[Listener] = "l_lock"
    /\ Acquire(Listener)
    /\ pc' = [pc EXCEPT ![Listener] = "l_read"]
    /\ UNCHANGED <<rx, resp, rdret, lost, callerVars, modemVars, frame, listenerVars>>

\* count, data = bb_serial_read(RX_PIN); "+CMTI:" in message; re.search(...)
LRead ==
    /\ pc[Listener] = "l_read"
    /\ rx' = <<>>
    /\ lost' = IF lost = "none" /\ Missed(rx) THEN "split" ELSE lost
    /\ IF Has(rx, {"cmti"}) /\ MatchStarts(rx) # {}
       THEN /\ lidx' = ParseIndex(rx)
            /\ lsrc' = MatchSource(rx)
            /\ lsms' = NoSms
            /\ ltrace' = <<>>
            /\ pc' = [pc EXCEPT ![Listener] = "lr_flush"]
            /\ UNCHANGED lock
       ELSE /\ Release(Listener)
            /\ pc' = [pc EXCEPT ![Listener] = "l_sleep"]
            /\ UNCHANGED listenerVars
    /\ UNCHANGED <<resp, rdret, callerVars, modemVars, frame>>

\* _read_sms_direct: flush_uart()
LrFlush ==
    /\ pc[Listener] = "lr_flush"
    /\ Flush(Listener, "lr_send")
    /\ UNCHANGED <<lock, resp, rdret, callerVars, modemVars, frame, listenerVars>>

\* _read_sms_direct: uart_send(f"AT+CMGR={index}")
LrSend ==
    /\ pc[Listener] = "lr_send"
    /\ Send(Listener, "CMGR", lidx, "lr_sleep")
    /\ ltrace' = Append(ltrace, <<"CMGR", lidx>>)
    /\ UNCHANGED <<lock, rx, resp, rdret, lost, nnotif, callerVars, frame, lidx, lsrc, lsms>>

\* _read_sms_direct: time.sleep(0.5); response = uart_read(timeout=3)
LrSleep ==
    /\ pc[Listener] = "lr_sleep"
    /\ StartRead(Listener, "lr_parse")
    /\ UNCHANGED <<lock, rx, lost, callerVars, modemVars, frame, listenerVars>>

\* sms = self._read_sms_direct(sms_index); if sms: save and queue;
\* if AUTO_DELETE_SMS: self._delete_sms_direct(sms_index)
LrParse ==
    /\ pc[Listener] = "lr_parse"
    /\ resp' = [resp EXCEPT ![Listener] = <<>>]
    /\ IF autoDelete
       THEN /\ lsms' = ReadSmsResult(lidx, resp[Listener])
            /\ pc' = [pc EXCEPT ![Listener] = "ld_flush"]
            /\ UNCHANGED <<lock, lidx, lsrc, ltrace>>
       ELSE /\ Release(Listener)
            /\ pc' = [pc EXCEPT ![Listener] = "l_sleep"]
            /\ lidx' = NoIndex /\ lsrc' = NoIndex /\ lsms' = NoSms /\ ltrace' = <<>>
    /\ UNCHANGED <<rx, rdret, lost, callerVars, modemVars, frame>>

\* _delete_sms_direct: flush_uart()
LdFlush ==
    /\ pc[Listener] = "ld_flush"
    /\ Flush(Listener, "ld_send")
    /\ UNCHANGED <<lock, resp, rdret, callerVars, modemVars, frame, listenerVars>>

\* _delete_sms_direct: uart_send(f"AT+CMGD={index}")
LdSend ==
    /\ pc[Listener] = "ld_send"
    /\ Send(Listener, "CMGD", DeleteSlot(lidx), "ld_sleep")
    /\ ltrace' = Append(ltrace, <<"CMGD", DeleteSlot(lidx)>>)
    /\ UNCHANGED <<lock, rx, resp, rdret, lost, nnotif, callerVars, frame, lidx, lsrc, lsms>>

\* _delete_sms_direct: time.sleep(0.5); delete_response = uart_read(timeout=2)
LdSleep ==
    /\ pc[Listener] = "ld_sleep"
    /\ StartRead(Listener, "ld_done")
    /\ UNCHANGED <<lock, rx, lost, callerVars, modemVars, frame, listenerVars>>

\* the with block ends
LdDone ==
    /\ pc[Listener] = "ld_done"
    /\ Release(Listener)
    /\ pc' = [pc EXCEPT ![Listener] = "l_sleep"]
    /\ resp' = [resp EXCEPT ![Listener] = <<>>]
    /\ lidx' = NoIndex /\ lsrc' = NoIndex /\ lsms' = NoSms /\ ltrace' = <<>>
    /\ UNCHANGED <<rx, rdret, lost, callerVars, modemVars, frame>>

\* time.sleep(0.1), next iteration
LSleep ==
    /\ pc[Listener] = "l_sleep"
    /\ pc' = [pc EXCEPT ![Listener] = "l_lock"]
    /\ UNCHANGED <<lock, rx, resp, rdret, lost, callerVars, modemVars, frame, listenerVars>>

\* ------------------------------------------------------------------------
\* Specification of the SMS manager
\* ------------------------------------------------------------------------
Next ==
    \/ \E s \in Slots : ModemNotify(s)
    \/ ModemEmit
    \/ \E t \in Fg, c \in {"cmd", "bad"} : CallSendCommand(t, c)
    \/ \E t \in Fg : CallSendSms(t)
    \/ \E t \in Fg : SaAcquire(t)
    \/ \E t \in Fg : SaFlush(t)
    \/ \E t \in Fg : SaSend(t)
    \/ \E t \in Fg : SaReturn(t)
    \/ \E t \in MgrThreads : RdData(t)
    \/ \E t \in MgrThreads : RdTrail(t)
    \/ \E t \in MgrThreads : RdSilence(t)
    \/ \E t \in MgrThreads : RdDeadline(t)
    \/ \E t \in Fg : SbAcquire(t)
    \/ \E t \in Fg : SbFlush(t)
    \/ \E t \in Fg : SbSend(t)
    \/ \E t \in Fg : SbCheck(t)
    \/ \E t \in Fg : SbWaitData(t)
    \/ \E t \in Fg : SbWaitTrail(t)
    \/ \E t \in Fg : SbWaitDeadline(t)
    \/ \E t \in Fg : SbReturn(t)
    \/ LAcquire
    \/ LRead
    \/ LrFlush
    \/ LrSend
    \/ LrSleep
    \/ LrParse
    \/ LdFlush
    \/ LdSend
    \/ LdSleep
    \/ LdDone
    \/ LSleep

Spec == Init /\ [][Next]_vars

\* ------------------------------------------------------------------------
\* Properties of the SMS manager (checked under Spec)
\* ------------------------------------------------------------------------
\* From the flush that opens a command to the end of its last read.
TransportPcs ==
    {"sa_flush", "sa_send", "rd_poll", "rd_trail",
     "sb_flush", "sb_send", "sb_check", "sb_wait", "sb_trail",
     "l_read", "lr_flush", "lr_send", "lr_sleep", "ld_flush", "ld_send", "ld_sleep"}
InTransport(t) == pc[t] \in TransportPcs

\* C1: at every instant at most one thread is inside a transport sequence
\* (flush, write or read of the serial line): a dispatcher command, the
\* listener's direct slot read and delete, and the SMS body transmission
\* exclude one another, and the thread inside holds uart_lock.
C1_OneThreadInTransport ==
    /\ Cardinality({t \in MgrThreads : InTransport(t)}) <= 1
    /\ \A t \in MgrThreads : InTransport(t) => lock = t

\* C1 witness: the listener is reading a slot while the caller of send_sms
\* waits for the lock to transmit the message body.
C1_Witness ==
    /\ pc[Listener] = "rd_poll"
    /\ ltrace # <<>>
    /\ \E t \in Fg : pc[t] = "sb_lock"

DeleteIssued == \E i \in 1..Len(ltrace) : ltrace[i][1] = "CMGD"

\* C4 (as claimed): with auto-delete enabled a delete is issued for a slot
\* only after the read of that slot has produced an SMS record; when the read
\* produced no record no delete is issued.
C4_DeleteOnlyAfterRecord == DeleteIssued => lsms # NoSms

\* C4 (amended): a delete is issued only with auto-delete enabled and only
\* directly after the read command for the same slot was issued in the
\* handling of the same notification, whether or not a record was produced.
C4_DeleteOnlyAfterReadCommand ==
    \A i \in 1..Len(ltrace) :
        ltrace[i][1] = "CMGD" =>
            /\ autoDelete
            /\ i > 1
            /\ ltrace[i - 1] = <<"CMGR", ltrace[i][2]>>

\* C4 witness: the delete went out after a read that produced no record.
C4_Witness == DeleteIssued /\ lsms = NoSms /\ Len(ltrace) = 2

\* C7: no notification text is flushed away, consumed by a command's
\* uart_read, or read by the listener without the notified slot being the
\* one it goes on to read.
C7_NotificationReachesListener == lost = "none"

ListenerNext ==
    \/ LAcquire \/ LRead \/ LrFlush \/ LrSend \/ LrSleep \/ LrParse
    \/ LdFlush \/ LdSend \/ LdSleep \/ LdDone \/ LSleep
    \/ RdData(Listener) \/ RdTrail(Listener) \/ RdSilence(Listener)
    \/ RdDeadline(Listener)

\* C8: the listener never blocks on the lock: wherever it is, it has a step
\* to take (an acquisition attempt that finds the lock held is skipped).
C8_ListenerNeverBlocks == ENABLED ListenerNext

ListenerSleepPcs == {"l_sleep", "lr_sleep", "ld_sleep", "rd_trail"}

\* C9: the listener never sleeps while it holds the lock, also not during
\* the slot read and the slot delete.
C9_NoSleepHoldingLock ==
    pc[Listener] \in ListenerSleepPcs => lock # Listener

\* C10: for the notification of slot n the listener writes the read of slot
\* n first and the delete of slot n second, and nothing else.
C10_ReadThenDeleteOfNotifiedSlot ==
    /\ Len(ltrace) <= 2
    /\ Len(ltrace) >= 1 => ltrace[1] = <<"CMGR", lsrc>>
    /\ Len(ltrace) = 2 => ltrace[2] = <<"CMGD", lsrc>>

\* C11 (as claimed): send_command reports success exactly when a terminal
\* token (OK, ERROR or the prompt) is in the response that was captured.
C11_SuccessIffTerminalToken ==
    \A t \in Fg :
        pc[t] = "sa_ret" => (Success(fop[t], resp[t]) <=> HasTerminal(resp[t]))

\* C11 (amended): send_command reports success exactly when the token the
\* caller expects is in the captured response: the prompt for AT+CMGS, OK
\* for every other command; ERROR or a response without the token fails.
C11_SuccessIffExpectedToken ==
    \A t \in Fg :
        pc[t] = "sa_ret" =>
            /\ fop[t] = "sms_cmgs" =>
                   (Success(fop[t], resp[t]) <=> Has(resp[t], {"prompt"}))
            /\ fop[t] # "sms_cmgs" =>
                   (Success(fop[t], resp[t]) <=> Has(resp[t], {"ok"}))

\* C11 witness: a command was answered with ERROR and send_command is about
\* to report failure for it.
C11_Witness ==
    \E t \in Fg :
        /\ pc[t] = "sa_ret"
        /\ fop[t] = "bad"
        /\ Has(resp[t], {"error"})
        /\ ~Success(fop[t], resp[t])

\* ------------------------------------------------------------------------
\* check_network_registration (Workspace/recv_sms.py, Workspace/send_sms.py)
\* ------------------------------------------------------------------------
MaxAttempts == 30        \* for attempt in range(30)
ReenableAttempts == 5    \* if attempt < 5

\* What the response to one AT+CREG? contains: no "+CREG:" at all (silence,
\* timeout, other text), a "+CREG:" line the regex does not match (the
\* one-field unsolicited "+CREG: <stat>"), or the answer "+CREG: <n>,<stat>".
PollAnswers ==
    {[kind |-> "none", n |-> 0, stat |-> 0], [kind |-> "urc", n |-> 0, stat |-> 0]}
        \cup [kind : {"ans"}, n : {0, 1}, stat : 0..5]

\* status_meanings: 1 registered (home network), 5 registered (roaming)
ReportsRegistered(r) == r.kind = "ans" /\ r.stat \in {1, 5}
\* 3 registration denied
ReportsDenied(r) == r.kind = "ans" /\ r.stat = 3

\* "+CREG: 1,1" in initial_creg or "+CREG: 1,5" in initial_creg
EarlyRegistered(r) == r.kind = "ans" /\ r.n = 1 /\ r.stat \in {1, 5}

\* status == "1" ... elif status == "5": return True
LoopRegisteredHomeOnly(r) == r.kind = "ans" /\ r.stat = 1
LoopRegistered(r) == r.kind = "ans" /\ r.stat \in {1, 5}

Observe(r) ==
    /\ polls' = polls + 1
    /\ regAny' = (regAny \/ ReportsRegistered(r))
    /\ deniedAt' = IF deniedAt = 0 /\ ReportsDenied(r) THEN polls + 1 ELSE deniedAt

\* The engine of the SMS manager at rest.
EngineIdle ==
    /\ lock = NoThread
    /\ pc = [t \in MgrThreads |-> IF t = Listener THEN "l_lock" ELSE "idle"]
    /\ rx = <<>>
    /\ pending = <<>>
    /\ resp = [t \in MgrThreads |-> <<>>]
    /\ rdret = [t \in MgrThreads |-> "idle"]
    /\ fop = [t \in Fg |-> "none"]
    /\ calls = 0
    /\ store = {}
    /\ nnotif = 0
    /\ autoDelete = TRUE
    /\ lidx = NoIndex
    /\ lsrc = NoIndex
    /\ lsms = NoSms
    /\ ltrace = <<>>
    /\ lost = "none"

\* check_network_registration is entered: AT+CSQ, AT+COPS?
InitReg ==
    /\ EngineIdle
    /\ AuxIdle
    /\ rpc = "cops"
    /\ attempt = 0
    /\ polls = 0
    /\ rres = "none"
    /\ regEarly = FALSE
    /\ regLoop = FALSE
    /\ regAny = FALSE
    /\ deniedAt = 0
    /\ reenables = 0
    /\ escalations = 0
    /\ rlast = "none"
    /\ rsent = <<>>

\* The diagnostics before the first poll: AT+COPS=0 when the operator mode
\* asks for it, AT+CIMI, AT+CFUN?, AT+CFUN=1 and the wait.
RegDiagnostics ==
    /\ rpc = "cops"
    /\ rpc' = "creg0"
    /\ UNCHANGED <<attempt, polls, rres, regEarly, regLoop, regAny, deniedAt,
                   reenables, escalations, rlast, rsent, regFrame>>

\* success, initial_creg = self.send_command("AT+CREG?", 2)
RegInitialPoll(r) ==
    /\ rpc = "creg0"
    /\ Observe(r)
    /\ IF EarlyRegistered(r)
       THEN /\ rpc' = "done"
            /\ rres' = "true"
       ELSE /\ rpc' = "enable"
            /\ UNCHANGED rres
    /\ regEarly' = (r.kind = "ans" /\ r.n = 1 /\ ReportsRegistered(r))
    /\ UNCHANGED <<attempt, regLoop, reenables, escalations, rlast, rsent, regFrame>>

\* self.send_command("AT+CREG=1", 2), whatever it answers
RegEnable ==
    /\ rpc = "enable"
    /\ rpc' = "loop"
    /\ UNCHANGED <<attempt, polls, rres, regEarly, regLoop, regAny, deniedAt,
                   reenables, escalations, rlast, rsent, regFrame>>

ReenablesAlways(a) == TRUE

\* if attempt < 5: the loop variable, not the number of idle reports
Reenables(a) == a < ReenableAttempts

\* One iteration of the loop: AT+CREG?, then the branch on the status.
RegPoll(r) ==
    /\ rpc = "loop"
    /\ attempt < MaxAttempts
    /\ Observe(r)
    /\ attempt' = attempt + 1
    /\ rlast' = IF r.kind = "ans" /\ r.stat = 0 THEN "idle" ELSE "other"
    /\ IF LoopRegistered(r)
       THEN /\ rpc' = "done"
            /\ rres' = "true"
            /\ rsent' = <<>>
            /\ UNCHANGED <<reenables, escalations>>
       ELSE /\ UNCHANGED <<rpc, rres>>
            /\ IF r.kind = "ans" /\ r.stat = 0
               THEN IF Reenables(attempt)
                    THEN /\ reenables' = reenables + 1
                         /\ rsent' = <<"AT+CREG=1">>
                         /\ UNCHANGED escalations
                    ELSE /\ escalations' = escalations + 1
                         /\ rsent' = <<"AT+COPS=0", "AT+CGREG=1">>
                         /\ UNCHANGED reenables
               ELSE rsent' = <<>> /\ UNCHANGED <<reenables, escalations>>
    /\ regLoop' = (regLoop \/ ReportsRegistered(r))
    /\ UNCHANGED <<regEarly, regFrame>>

\* The loop ends without a registration: logger.error(...); return False
RegExhausted ==
    /\ rpc = "loop"
    /\ attempt = MaxAttempts
    /\ rpc' = "done"
    /\ rres' = "false"
    /\ UNCHANGED <<attempt, polls, regEarly, regLoop, regAny, deniedAt,
                   reenables, escalations, rlast, rsent, regFrame>>

NextReg ==
    \/ RegDiagnostics
    \/ \E r \in PollAnswers : RegInitialPoll(r)
    \/ RegEnable
    \/ \E r \in PollAnswers : RegPoll(r)
    \/ RegExhausted

SpecReg == InitReg /\ [][NextReg]_vars

\* C5 (as claimed): at most 30 status polls, then a return; success exactly
\* when one of the polls reported registered-home or registered-roaming.
C5_AtMost30PollsSuccessIffRegistered ==
    /\ polls <= 30
    /\ rpc = "done" => (rres = "true" <=> regAny)

\* C5 (amended): at most 31 status polls (one before the loop, at most 30 in
\* it), then a return of success or reported failure; success exactly when
\* the poll before the loop answered "+CREG: 1,1" or "+CREG: 1,5" or a poll
\* of the loop reported status 1 or 5.
C5_AtMost31PollsSuccessIffSeen ==
    /\ polls <= MaxAttempts + 1
    /\ attempt <= MaxAttempts
    /\ rres = "true" => rpc = "done" /\ regAny
    /\ rpc = "done" =>
          /\ rres \in {"true", "false"}
          /\ rres = "true" <=> (regEarly \/ regLoop)
          /\ rres = "false" => polls = MaxAttempts + 1

\* C5 witness: the loop ran out after 31 polls although the first poll had
\* reported a registration (with n = 0).
C5_Witness ==
    rpc = "done" /\ rres = "false" /\ polls = MaxAttempts + 1 /\ regAny

\* C6: once a poll has reported "registration denied" no further poll is
\* issued and the result is never success.
C6_DeniedIsTerminal ==
    deniedAt > 0 => (polls = deniedAt /\ rres # "true")

\* ------------------------------------------------------------------------
\* sim800l_hat.py: the capture loop, send_at and send_sms
\* ------------------------------------------------------------------------
MaxHatCalls == 2    \* send_at / send_sms calls started in one behaviour

Capture == "main"                    \* the capture loop of the main thread
HatCallers == {"battery", "flask"}   \* battery_monitor_thread, a Flask request thread
HatThreads == HatCallers \cup {Capture}

\* what no step of sim800l_hat.py changes
hatFrame == <<rdret, store, nnotif, lost, listenerVars, frame>>

InitHat ==
    /\ RegIdle
    /\ AuxIdle
    /\ lock = NoThread
    /\ pc = [t \in HatThreads |-> IF t = Capture THEN "m_loop" ELSE "idle"]
    /\ rx = <<>>
    /\ pending = <<>>
    /\ resp = [t \in HatThreads |-> <<>>]
    /\ rdret = [t \in HatThreads |-> "idle"]
    /\ fop = [t \in HatCallers |-> "none"]
    /\ calls = 0
    /\ store = {}
    /\ nnotif = 0
    /\ autoDelete = TRUE
    /\ lidx = NoIndex
    /\ lsrc = NoIndex
    /\ lsms = NoSms
    /\ ltrace = <<>>
    /\ lost = "none"

\* A thread calls send_at(cmd) (get_battery_voltage, an /api/sim/... route).
HatCallSendAt(t) ==
    /\ pc[t] = "idle"
    /\ calls < MaxHatCalls
    /\ calls' = calls + 1
    /\ fop' = [fop EXCEPT ![t] = "at"]
    /\ pc' = [pc EXCEPT ![t] = "h_lock"]
    /\ UNCHANGED <<lock, rx, pending, resp, hatFrame>>

\* A request thread calls send_sms (/api/sms-reports/send-now, test-sms).
HatCallSendSms(t) ==
    /\ t = "flask"
    /\ pc[t] = "idle"
    /\ calls < MaxHatCalls
    /\ calls' = calls + 1
    /\ fop' = [fop EXCEPT ![t] = "sms"]
    /\ pc' = [pc EXCEPT ![t] = "s_lock"]
    /\ UNCHANGED <<lock, rx, pending, resp, hatFrame>>

\* send_sms: with uart_lock:  and, holding it, resp = send_at("AT+CMGF=1")
HatSmsAcquire(t) ==
    /\ pc[t] = "s_lock"
    /\ Acquire(t)
    /\ pc' = [pc EXCEPT ![t] = "h_lock"]
    /\ UNCHANGED <<rx, pending, resp, callerVars, hatFrame>>

\* send_at: with uart_lock:
HatAcquire(t) ==
    /\ pc[t] = "h_lock"
    /\ Acquire(t)
    /\ pc' = [pc EXCEPT ![t] = "h_flush"]
    /\ UNCHANGED <<rx, pending, resp, callerVars, hatFrame>>

\* send_at: flush_uart()
HatFlush(t) ==
    /\ pc[t] = "h_flush"
    /\ rx' = <<>>
    /\ pc' = [pc EXCEPT ![t] = "h_send"]
    /\ UNCHANGED <<lock, pending, resp, callerVars, hatFrame>>

\* send_at: uart_send(cmd); time.sleep(delay); response = ""
HatSend(t) ==
    /\ pc[t] = "h_send"
    /\ pending' = pending \o Reply(t, "AT", NoIndex, store)
    /\ resp' = [resp EXCEPT ![t] = <<>>]
    /\ pc' = [pc EXCEPT ![t] = "h_read"]
    /\ UNCHANGED <<lock, rx, callerVars, hatFrame>>

\* send_at: data = uart_read(); response += data; break on "OK" or "ERROR"
HatReadData(t) ==
    /\ pc[t] = "h_read"
    /\ rx # <<>>
    /\ resp' = [resp EXCEPT ![t] = @ \o rx]
    /\ rx' = <<>>
    /\ pc' = [pc EXCEPT ![t] = IF Has(resp[t] \o rx, {"ok", "error"})
                                THEN "h_ret" ELSE "h_read"]
    /\ UNCHANGED <<lock, pending, callerVars, hatFrame>>

\* send_at: time.time() reaches timeout (delay + 2 s after the sleep)
HatReadDeadline(t) ==
    /\ pc[t] = "h_read"
    /\ pc' = [pc EXCEPT ![t] = "h_ret"]
    /\ UNCHANGED <<lock, rx, pending, resp, callerVars, hatFrame>>

\* send_at: return response (the with block releases the lock)
HatReturn(t) ==
    /\ pc[t] = "h_ret"
    /\ Release(t)
    /\ resp' = [resp EXCEPT ![t] = <<>>]
    /\ fop' = [fop EXCEPT ![t] = "none"]
    /\ pc' = [pc EXCEPT ![t] = "idle"]
    /\ UNCHANGED <<rx, pending, calls, hatFrame>>

\* Capture loop: if uart_lock.acquire(blocking=False): ... else: ...
CaptureTry ==
    /\ pc[Capture] = "m_loop"
    /\ IF lock = NoThread
       THEN lock' = Capture /\ pc' = [pc EXCEPT ![Capture] = "m_read"]
       ELSE UNCHANGED lock /\ pc' = [pc EXCEPT ![Capture] = "m_backoff"]
    /\ UNCHANGED <<rx, pending, resp, callerVars, hatFrame>>

\* Capture loop: data = uart_read(); uart_lock.release(); the complete lines
\* of the buffer are handled; time.sleep(0.1)
CaptureRead ==
    /\ pc[Capture] = "m_read"
    /\ rx' = <<>>
    /\ Release(Capture)
    /\ pc' = [pc EXCEPT ![Capture] = "m_loop"]
    /\ UNCHANGED <<pending, resp, callerVars, hatFrame>>

\* Capture loop: time.sleep(0.1); continue
CaptureBackoff ==
    /\ pc[Capture] = "m_backoff"
    /\ pc' = [pc EXCEPT ![Capture] = "m_loop"]
    /\ UNCHANGED <<lock, rx, pending, resp, callerVars, hatFrame>>

NextHat ==
    \/ \E t \in HatCallers : HatCallSendAt(t)
    \/ \E t \in HatCallers : HatCallSendSms(t)
    \/ \E t \in HatCallers : HatSmsAcquire(t)
    \/ \E t \in HatCallers : HatAcquire(t)
    \/ \E t \in HatCallers : HatFlush(t)
    \/ \E t \in HatCallers : HatSend(t)
    \/ \E t \in HatCallers : HatReadData(t)
    \/ \E t \in HatCallers : HatReadDeadline(t)
    \/ \E t \in HatCallers : HatReturn(t)
    \/ CaptureTry
    \/ CaptureRead
    \/ CaptureBackoff
    \/ ModemEmit

SpecHat == InitHat /\ [][NextHat]_vars

\* C2: the response send_at returns to a caller holds only output the modem
\* produced for that caller's own command, nothing of another caller's.
C2_ResponseHoldsOnlyOwnReply ==
    \A t \in HatCallers :
        pc[t] = "h_ret" => \A i \in 1..Len(resp[t]) : resp[t][i].c = t

\* C3: no thread waits for uart_lock while holding it itself, so that every
\* request for the lock can be granted and every send_sms / send_at returns.
C3_NoThreadWaitsForItsOwnLock ==
    \A t \in HatCallers : pc[t] = "h_lock" => lock # t

\* ------------------------------------------------------------------------
\* send_at / uart_read of the SMS manager on a clock (one tick is 10 ms)
\* ------------------------------------------------------------------------
MaxHold == 2        \* ticks another thread keeps uart_lock after the call

Grace == 5          \* trailing_delay = 0.05
PollTick == 1       \* time.sleep(0.01)

\* send_command: the timeout chosen from the command's prefix, in ticks
TimeoutFor(class) ==
    CASE class = "cops" -> 1500     \* AT+COPS=   15 s
      [] class = "cfun" -> 800      \* AT+CFUN=    8 s
      [] class = "cpin" -> 500      \* AT+CPIN=    5 s
      [] class = "query" -> 300     \* "?" in command, 3 s
      [] OTHER -> 200               \* 2 s
Classes == {"cops", "cfun", "cpin", "query", "other"}
\* wait_time: the default 0.1 s, and the 1 s most callers pass
Delays == {10, 100}

\* response += data: what the response holds after more bytes were read
Join(a, b) ==
    IF "terminal" \in {a, b} THEN "terminal"
    ELSE IF "partial" \in {a, b} THEN "partial" ELSE "none"

\* while time.time() < deadline
ExpiredLate(now, deadline) == now >= deadline + Grace + 1
Expired(now, deadline) == now >= deadline

\* what no step of the timed call changes
timeFrame ==
    <<engineVars, regVars, sessVars, ctlVars, battVars, teleVars, tailVars>>

\* send_at(cmd, delay, timeout) has just been called.
InitTime ==
    /\ EngineIdle
    /\ RegIdle
    /\ SessIdle
    /\ CtlIdle
    /\ BattIdle
    /\ TeleIdle
    /\ TailIdle
    /\ tpc = "t_lock"
    /\ tnow = 0
    /\ tlockAt = 0
    /\ tdeadline = 0
    /\ tquiet = 0
    /\ tresp = "none"
    /\ trx = "none"
    /\ tcmd \in [class : Classes, delay : Delays]
    /\ tbusy \in BOOLEAN

\* with uart_lock: the lock is held by another thread, time passes
TimeLockWait ==
    /\ tpc = "t_lock"
    /\ tbusy
    /\ tnow < MaxHold
    /\ tnow' = tnow + 1
    /\ UNCHANGED <<tpc, tlockAt, tdeadline, tquiet, tresp, trx, tcmd, tbusy, timeFrame>>

\* the other thread leaves its with block
TimeOtherRelease ==
    /\ tbusy
    /\ tbusy' = FALSE
    /\ UNCHANGED <<tpc, tnow, tlockAt, tdeadline, tquiet, tresp, trx, tcmd, timeFrame>>

\* the modem sends bytes: some text, or text that completes a terminator
TimeModem(k) ==
    /\ tpc \in {"t_lock", "t_poll", "t_trail"}
    /\ trx # Join(trx, k)
    /\ trx' = Join(trx, k)
    /\ UNCHANGED <<tpc, tnow, tlockAt, tdeadline, tquiet, tresp, tcmd, tbusy, timeFrame>>

\* send_at: the lock is obtained; flush_uart(); uart_send(cmd);
\* time.sleep(delay); uart_read: response = "", deadline = now + timeout
TimeSend ==
    /\ tpc = "t_lock"
    /\ ~tbusy
    /\ tlockAt' = tnow
    /\ trx' = "none"
    /\ tnow' = tnow + tcmd.delay
    /\ tdeadline' = tnow + tcmd.delay + TimeoutFor(tcmd.class)
    /\ tresp' = "none"
    /\ tquiet' = 0
    /\ tpc' = "t_poll"
    /\ UNCHANGED <<tcmd, tbusy, timeFrame>>

\* uart_read: one pass of the while loop
TimePoll ==
    /\ tpc = "t_poll"
    /\ IF Expired(tnow, tdeadline)
       THEN /\ tpc' = "t_ret"
            /\ UNCHANGED <<tnow, tquiet, tresp, trx>>
       ELSE IF trx # "none"
       THEN /\ tresp' = Join(tresp, trx)
            /\ trx' = "none"
            /\ IF Join(tresp, trx) = "terminal"
               THEN /\ tnow' = tnow + Grace
                    /\ tquiet' = 0
                    /\ tpc' = "t_trail"
               ELSE /\ tnow' = tnow + PollTick
                    /\ tquiet' = PollTick
                    /\ tpc' = "t_poll"
       ELSE IF tresp # "none" /\ tquiet > Grace
       THEN /\ tpc' = "t_ret"
            /\ UNCHANGED <<tnow, tquiet, tresp, trx>>
       ELSE /\ tnow' = tnow + PollTick
            /\ tquiet' = IF tquiet > Grace THEN tquiet ELSE tquiet + PollTick
            /\ UNCHANGED <<tpc, tresp, trx>>
    /\ UNCHANGED <<tlockAt, tdeadline, tcmd, tbusy, timeFrame>>

\* uart_read: after time.sleep(trailing_delay) the last read, then break
TimeTrail ==
    /\ tpc = "t_trail"
    /\ tresp' = Join(tresp, trx)
    /\ trx' = "none"
    /\ tpc' = "t_ret"
    /\ UNCHANGED <<tnow, tlockAt, tdeadline, tquiet, tcmd, tbusy, timeFrame>>

\* send_at: return response
TimeReturn ==
    /\ tpc = "t_ret"
    /\ tpc' = "done"
    /\ UNCHANGED <<tnow, tlockAt, tdeadline, tquiet, tresp, trx, tcmd, tbusy, timeFrame>>

NextTime ==
    \/ TimeLockWait
    \/ TimeOtherRelease
    \/ \E k \in {"partial", "terminal"} : TimeModem(k)
    \/ TimeSend
    \/ TimePoll
    \/ TimeTrail
    \/ TimeReturn

SpecTime == InitTime /\ [][NextTime]_vars

CommAttempts == 3       \* for attempt in range(3)
WakeProbes == 3         \* for i in range(3): uart_send("AT")
AutobaudProbes == 5     \* for i in range(5): uart_send("AT")

\* what no step of the start-up sequence changes
sessFrame ==
    <<engineVars, regVars, timeVars, ctlVars, battVars, teleVars, tailVars>>

InitSession ==
    /\ EngineIdle
    /\ RegIdle
    /\ TimeIdle
    /\ CtlIdle
    /\ BattIdle
    /\ TeleIdle
    /\ TailIdle
    /\ sengine \in {"recv", "mgr"}
    /\ spin \in BOOLEAN
    /\ spc = "comm"
    /\ sattempt = 0
    /\ sprobes = 0
    /\ spassed = {}
    /\ sfail = "none"
    /\ strace = <<>>

Pass(step, next) ==
    /\ spassed' = spassed \cup {step}
    /\ spc' = next
    /\ UNCHANGED sfail

Fail(step) ==
    /\ spc' = "failed"
    /\ sfail' = step
    /\ UNCHANGED spassed

EscalatesAlways(ans) == TRUE

\* if not response.strip(): the recovery steps follow an empty response only
Escalates(ans) == ans = "silence"

\* test_basic_communication: send_command("AT", 1, "OK") of one attempt
RecvProbe(ans) ==
    /\ sengine = "recv"
    /\ spc = "comm"
    /\ sattempt < CommAttempts
    /\ sprobes' = sprobes + 1
    /\ strace' = Append(strace, <<"probe", ans>>)
    /\ CASE ans = "ok" -> Pass("comm", "cpin") /\ UNCHANGED sattempt
         [] ans # "ok" /\ Escalates(ans) ->
                spc' = "comm_slow" /\ UNCHANGED <<sattempt, spassed, sfail>>
         [] OTHER ->
                sattempt' = sattempt + 1 /\ UNCHANGED <<spc, spassed, sfail>>
    /\ UNCHANGED <<sengine, spin, sessFrame>>

\* test_basic_communication: send_command("AT", 2, "OK"), the slower timing
RecvProbeSlow(ok) ==
    /\ spc = "comm_slow"
    /\ strace' = Append(strace, <<"slow", IF ok THEN "ok" ELSE "none">>)
    /\ sprobes' = sprobes + 1
    /\ IF ok THEN Pass("comm", "cpin")
       ELSE spc' = "comm_wake" /\ UNCHANGED <<spassed, sfail>>
    /\ UNCHANGED <<sengine, spin, sattempt, sessFrame>>

\* test_basic_communication: three ATs to wake the module up
RecvWake(ok) ==
    /\ spc = "comm_wake"
    /\ strace' = Append(strace, <<"wake", IF ok THEN "ok" ELSE "none">>)
    /\ sprobes' = sprobes + WakeProbes
    /\ IF ok THEN Pass("comm", "cpin")
       ELSE spc' = "comm_autobaud" /\ UNCHANGED <<spassed, sfail>>
    /\ UNCHANGED <<sengine, spin, sattempt, sessFrame>>

\* test_basic_communication: five ATs for autobaud; then the next attempt
RecvAutobaud(ok) ==
    /\ spc = "comm_autobaud"
    /\ strace' = Append(strace, <<"autobaud", IF ok THEN "ok" ELSE "none">>)
    /\ sprobes' = sprobes + AutobaudProbes
    /\ IF ok THEN Pass("comm", "cpin") /\ UNCHANGED sattempt
       ELSE /\ spc' = "comm"
            /\ sattempt' = sattempt + 1
            /\ UNCHANGED <<spassed, sfail>>
    /\ UNCHANGED <<sengine, spin, sessFrame>>

\* test_basic_communication returns False; run_sms_receiver returns False
RecvCommFailed ==
    /\ sengine = "recv"
    /\ spc = "comm"
    /\ sattempt = CommAttempts
    /\ Fail("comm")
    /\ UNCHANGED <<sengine, spin, strace, sattempt, sprobes, sessFrame>>

\* check_cpin: "READY" / "SIM PIN" / anything else in the answer to AT+CPIN?
RecvCpin(ans) ==
    /\ sengine = "recv"
    /\ spc = "cpin"
    /\ CASE ans = "ready" -> Pass("sim", "net")
         [] ans = "simpin" /\ spin ->
                spc' = "unlock" /\ UNCHANGED <<spassed, sfail>>
         [] OTHER -> Fail("sim")
    /\ UNCHANGED <<sengine, spin, strace, sattempt, sprobes, sessFrame>>

\* unlock_sim: send_command(f"AT+CPIN={SIM_PIN}"), return success
RecvUnlock(ok) ==
    /\ sengine = "recv"
    /\ spc = "unlock"
    /\ IF ok THEN Pass("sim", "net") ELSE Fail("sim")
    /\ UNCHANGED <<sengine, spin, strace, sattempt, sprobes, sessFrame>>

\* if not gsm.check_network_registration(): return False
RecvRegister(ok) ==
    /\ sengine = "recv"
    /\ spc = "net"
    /\ IF ok THEN Pass("net", "signal") ELSE Fail("net")
    /\ UNCHANGED <<sengine, spin, strace, sattempt, sprobes, sessFrame>>

\* if not gsm.check_signal_quality(): return False; else on to listening
RecvSignal(ok) ==
    /\ sengine = "recv"
    /\ spc = "signal"
    /\ IF ok THEN spc' = "ready" /\ UNCHANGED <<spassed, sfail>>
       ELSE Fail("signal")
    /\ UNCHANGED <<sengine, spin, strace, sattempt, sprobes, sessFrame>>

\* initialize_module: send_command("AT", 1, "OK")
MgrProbe(ok) ==
    /\ sengine = "mgr"
    /\ spc = "comm"
    /\ sprobes' = sprobes + 1
    /\ IF ok THEN Pass("comm", "cpin") ELSE Fail("comm")
    /\ UNCHANGED <<sengine, spin, strace, sattempt, sessFrame>>

\* initialize_module: AT+CPIN?; only "SIM PIN" in the response is acted on
MgrCpin(ans) ==
    /\ sengine = "mgr"
    /\ spc = "cpin"
    /\ CASE ans = "simpin" /\ spin ->
                spc' = "unlock" /\ UNCHANGED <<spassed, sfail>>
         [] ans = "simpin" /\ ~spin -> Fail("sim")
         [] ans = "ready" -> Pass("sim", "cmgf")
         [] OTHER -> spc' = "cmgf" /\ UNCHANGED <<spassed, sfail>>
    /\ UNCHANGED <<sengine, spin, strace, sattempt, sprobes, sessFrame>>

\* initialize_module: send_command(f"AT+CPIN={SIM_PIN}")
MgrUnlock(ok) ==
    /\ sengine = "mgr"
    /\ spc = "unlock"
    /\ IF ok THEN Pass("sim", "cmgf") ELSE Fail("sim")
    /\ UNCHANGED <<sengine, spin, strace, sattempt, sprobes, sessFrame>>

\* initialize_module: AT+CFUN=1 (answer ignored), AT+CMGF=1; on success
\* startup_event calls start_listening and the API serves requests
MgrTextMode(ok) ==
    /\ sengine = "mgr"
    /\ spc = "cmgf"
    /\ IF ok THEN spc' = "ready" /\ UNCHANGED <<spassed, sfail>>
       ELSE Fail("cmgf")
    /\ UNCHANGED <<sengine, spin, strace, sattempt, sprobes, sessFrame>>

NextSession ==
    \/ \E ans \in {"ok", "silence", "text"} : RecvProbe(ans)
    \/ \E ok \in BOOLEAN : RecvProbeSlow(ok)
    \/ \E ok \in BOOLEAN : RecvWake(ok)
    \/ \E ok \in BOOLEAN : RecvAutobaud(ok)
    \/ RecvCommFailed
    \/ \E ans \in {"ready", "simpin", "other"} : RecvCpin(ans)
    \/ \E ok \in BOOLEAN : RecvUnlock(ok)
    \/ \E ok \in BOOLEAN : RecvRegister(ok)
    \/ \E ok \in BOOLEAN : RecvSignal(ok)
    \/ \E ok \in BOOLEAN : MgrProbe(ok)
    \/ \E ans \in {"ready", "simpin", "other"} : MgrCpin(ans)
    \/ \E ok \in BOOLEAN : MgrUnlock(ok)
    \/ \E ok \in BOOLEAN : MgrTextMode(ok)

SpecSession == InitSession /\ [][NextSession]_vars

\* C13: the session is Ready only after communication verification, SIM
\* unlock and network registration have each succeeded, and a failed step
\* leaves the sequence ended.
C13_ReadyOnlyAfterAllSteps ==
    /\ spc = "ready" => {"comm", "sim", "net"} \subseteq spassed
    /\ sfail # "none" => spc = "failed"

\* ------------------------------------------------------------------------
\* Listening control: start_listening, stop_listening, while self.listening
\* ------------------------------------------------------------------------
MaxTasks == 2       \* listener threads started in one behaviour

\* what no step of the listening control changes
ctlFrame ==
    <<engineVars, regVars, timeVars, sessVars, battVars, teleVars, tailVars>>

InitListen ==
    /\ EngineIdle
    /\ RegIdle
    /\ TimeIdle
    /\ SessIdle
    /\ CtlIdle
    /\ BattIdle
    /\ TeleIdle
    /\ TailIdle

Alive(k) == k \in 1..kcount /\ ktask[k] # "dead"
\* a listener thread is inside "with uart_lock:" handling what it read
LockBusy == \E k \in 1..kcount : ktask[k] = "iter"

\* start_listening sets self.listening = True before anything else
FlagAfterStartOnlyIfEnabled(ok) == ok
FlagAfterStart(ok) == TRUE

\* POST /start-listening: if self.listening: return; self.listening = True
StartListening ==
    /\ kreq = "none"
    /\ IF listening
       THEN /\ kdone' = "start"
            /\ UNCHANGED <<listening, kreq>>
       ELSE /\ listening' = TRUE
            /\ kreq' = "start_cnmi"
            /\ UNCHANGED kdone
    /\ UNCHANGED <<ktask, kcount, kstopped, ksurvived, ctlFrame>>

\* start_listening: send_command("AT+CNMI=2,1,0,0,0") once uart_lock is
\* free; on failure return, else start the listener thread
StartNotifications(ok) ==
    /\ kreq = "start_cnmi"
    /\ ~LockBusy
    /\ kcount < MaxTasks
    /\ listening' = FlagAfterStart(ok)
    /\ IF ok
       THEN /\ ktask' = Append(ktask, "check")
            /\ kcount' = kcount + 1
       ELSE UNCHANGED <<ktask, kcount>>
    /\ kreq' = "none"
    /\ kdone' = "start"
    /\ UNCHANGED <<kstopped, ksurvived, ctlFrame>>

\* POST /stop-listening: self.listening = False; then the join begins
StopListening ==
    /\ kreq = "none"
    /\ listening' = FALSE
    /\ kstopped' = kstopped \cup {k \in 1..kcount : ktask[k] # "dead"}
    /\ kreq' = "stop_join"
    /\ UNCHANGED <<ktask, kcount, kdone, ksurvived, ctlFrame>>

\* stop_listening: listener_thread.join(timeout=2) returns: the thread has
\* ended, or 2 s have passed with the thread still inside an iteration
StopJoined ==
    /\ kreq = "stop_join"
    /\ IF kcount = 0 THEN TRUE
       ELSE \/ ktask[kcount] \in {"dead", "iter"}
            \/ ktask[kcount] = "lock" /\ LockBusy
    /\ kreq' = "none"
    /\ kdone' = "stop"
    /\ UNCHANGED <<listening, ktask, kcount, kstopped, ksurvived, ctlFrame>>

\* _sms_listener: while self.listening:
ListenerCheck(k) ==
    /\ k \in 1..kcount
    /\ ktask[k] = "check"
    /\ ktask' = [ktask EXCEPT ![k] = IF listening THEN "lock" ELSE "dead"]
    /\ ksurvived' = IF listening /\ k \in kstopped
                    THEN ksurvived \cup {k} ELSE ksurvived
    /\ UNCHANGED <<listening, kcount, kreq, kdone, kstopped, ctlFrame>>

\* _sms_listener: with uart_lock: (blocks while another thread holds it)
ListenerEnter(k) ==
    /\ k \in 1..kcount
    /\ ktask[k] = "lock"
    /\ ~LockBusy
    /\ ktask' = [ktask EXCEPT ![k] = "iter"]
    /\ UNCHANGED <<listening, kcount, kreq, kdone, kstopped, ksurvived, ctlFrame>>

\* _sms_listener: the with block ends; time.sleep(0.1)
ListenerIterate(k) ==
    /\ k \in 1..kcount
    /\ ktask[k] = "iter"
    /\ ktask' = [ktask EXCEPT ![k] = "check"]
    /\ UNCHANGED <<listening, kcount, kreq, kdone, kstopped, ksurvived, ctlFrame>>

NextListen ==
    \/ StartListening
    \/ \E ok \in BOOLEAN : StartNotifications(ok)
    \/ StopListening
    \/ StopJoined
    \/ \E k \in 1..MaxTasks : ListenerCheck(k)
    \/ \E k \in 1..MaxTasks : ListenerEnter(k)
    \/ \E k \in 1..MaxTasks : ListenerIterate(k)

SpecListen == InitListen /\ [][NextListen]_vars

\* C14: a listener thread that was running when stop_listening was called
\* ends at its next check of the run flag.
C14_StoppedListenerTerminates == ksurvived = {}

\* C15: between requests, listening is false when the last completed
\* request was stop-listening and true when it was start-listening.
C15_StatusFollowsLastRequest ==
    kreq = "none" =>
        /\ kdone = "stop" => listening = FALSE
        /\ kdone = "start" => listening = TRUE

\* C15 witness: a stop-listening completed, then a start-listening whose
\* AT+CNMI failed completed, and the flag reads true.
C15_Witness ==
    /\ kreq = "none"
    /\ kdone = "start"
    /\ kstopped # {}
    /\ listening
    /\ \A k \in 1..kcount : ktask[k] = "dead"

\* ------------------------------------------------------------------------
\* sim800l_hat.py: get_battery_voltage and battery_voltage_history, called
\* by battery_monitor_thread and by the Flask request threads
\* ------------------------------------------------------------------------
MaxSamples == 3     \* get_battery_voltage calls made in one behaviour

Capacity == 20      \* if len(battery_voltage_history) > 20

\* what no step of get_battery_voltage changes
battFrame ==
    <<engineVars, regVars, timeVars, sessVars, ctlVars, teleVars, tailVars>>

\* battery_voltage_history[-n:]
LastN(h, n) == IF Len(h) <= n THEN h ELSE SubSeq(h, Len(h) - n + 1, Len(h))

\* The history after n0 calls made one after the other.
InitBattery ==
    /\ EngineIdle
    /\ RegIdle
    /\ TimeIdle
    /\ SessIdle
    /\ CtlIdle
    /\ TeleIdle
    /\ TailIdle
    /\ \E n0 \in 0..Capacity :
          /\ nsamp = n0
          /\ blog = [i \in 1..n0 |-> i]
          /\ history = LastN([i \in 1..n0 |-> i], Capacity)
    /\ bpc = [t \in Samplers |-> "idle"]
    /\ bloc = [t \in Samplers |-> 0]
    /\ bcopy = [t \in Samplers |-> <<>>]
    /\ bnew = 0

\* resp = send_at("AT+CBC", delay=3) and the match of the patterns: three
\* groups give a sample, anything else returns None
BatterySample(t, parsed) ==
    /\ bpc[t] = "idle"
    /\ bnew < MaxSamples
    /\ bnew' = bnew + 1
    /\ IF parsed
       THEN /\ nsamp' = nsamp + 1
            /\ bloc' = [bloc EXCEPT ![t] = nsamp + 1]
            /\ bpc' = [bpc EXCEPT ![t] = "append"]
       ELSE UNCHANGED <<nsamp, bloc, bpc>>
    /\ UNCHANGED <<history, blog, bcopy, battFrame>>

\* battery_voltage_history.append({...})
BatteryAppend(t) ==
    /\ bpc[t] = "append"
    /\ history' = Append(history, bloc[t])
    /\ blog' = Append(blog, bloc[t])
    /\ bpc' = [bpc EXCEPT ![t] = "check"]
    /\ UNCHANGED <<bloc, bcopy, nsamp, bnew, battFrame>>

\* if len(battery_voltage_history) > 20: ... battery_voltage_history[-20:]
BatteryCheck(t) ==
    /\ bpc[t] = "check"
    /\ IF Len(history) > Capacity
       THEN /\ bcopy' = [bcopy EXCEPT ![t] = LastN(history, Capacity)]
            /\ bpc' = [bpc EXCEPT ![t] = "assign"]
       ELSE /\ bpc' = [bpc EXCEPT ![t] = "status"]
            /\ UNCHANGED bcopy
    /\ UNCHANGED <<history, blog, bloc, nsamp, bnew, battFrame>>

\* battery_voltage_history = (the slice)
BatteryAssign(t) ==
    /\ bpc[t] = "assign"
    /\ history' = bcopy[t]
    /\ bcopy' = [bcopy EXCEPT ![t] = <<>>]
    /\ bpc' = [bpc EXCEPT ![t] = "status"]
    /\ UNCHANGED <<blog, bloc, nsamp, bnew, battFrame>>

\* charging_status = determine_battery_charging_status(); return {...}
BatteryReturn(t) ==
    /\ bpc[t] = "status"
    /\ bloc' = [bloc EXCEPT ![t] = 0]
    /\ bpc' = [bpc EXCEPT ![t] = "idle"]
    /\ UNCHANGED <<history, blog, bcopy, nsamp, bnew, battFrame>>

NextBattery ==
    \/ \E t \in Samplers, parsed \in BOOLEAN : BatterySample(t, parsed)
    \/ \E t \in Samplers : BatteryAppend(t)
    \/ \E t \in Samplers : BatteryCheck(t)
    \/ \E t \in Samplers : BatteryAssign(t)
    \/ \E t \in Samplers : BatteryReturn(t)

SpecBattery == InitBattery /\ [][NextBattery]_vars

NoSampler == \A t \in Samplers : bpc[t] = "idle"

\* C16: between calls the history holds at most 20 samples, in the order in
\* which they were taken.
C16_HistoryBoundedOrderedOldestEvicted ==
    NoSampler =>
        /\ Len(history) <= Capacity
        /\ \A i, j \in 1..Len(history) : i < j => history[i] < history[j]

\* C17: with concurrent callers, once they have returned the history holds
\* every appended sample once, except the oldest ones evicted for capacity.
C17_NoSampleLostButTheOldest ==
    NoSampler => history = LastN(blog, Capacity)

\* ------------------------------------------------------------------------
\* Telemetry functions: determine_battery_charging_status, the parsing of
\* the AT+CBC answer (sim800l_hat.py and the SMS manager) and
\* get_signal_strength.  Each behaviour applies one function to one input.
\* ------------------------------------------------------------------------
MaxHistory == 6              \* samples in the history given to the function
Recent == 5                  \* battery_voltage_history[-5:]
ChargingThreshold == 10      \* charging_threshold = 0.01 V
DischargingThreshold == -5   \* discharging_threshold = -0.005 V

\* Voltages are counted in thousandths of a volt.
Voltages == {4145, 4150, 4156, 4166}

\* avg_change is a binary floating-point number: the voltages m/1000.0,
\* their differences, the sum and the quotient are each rounded, so the
\* computed mean is the exact mean plus a rounding error of some 1e-16 V.
\* The exact mean is a multiple of 1/4000 V, so the error decides the
\* comparison only when the exact mean is at the threshold.  RoundErr is the
\* sign of the error: which sign occurs depends on the binary expansions of
\* the voltages (4.156 -> 4.166 computes 0.010000000000000675,
\* 4.000 -> 4.010 computes 0.009999999999999787, 4.150 -> 4.145 computes
\* -0.005000000000000782).
RoundErr == {-1, 0, 1}

teleFrame ==
    <<engineVars, regVars, timeVars, sessVars, ctlVars, battVars, tailVars>>

\* voltage_changes: recent_history[i] - recent_history[i-1]
VoltageChanges(r) == [i \in 1..(Len(r) - 1) |-> r[i + 1] - r[i]]

RECURSIVE SumSeq(_)
SumSeq(s) == IF s = <<>> THEN 0 ELSE Head(s) + SumSeq(Tail(s))

\* avg_change > threshold, where avg_change is total / n computed in
\* floating point with a rounding error of sign e
Above(total, n, threshold, e) ==
    IF total = threshold * n THEN e > 0 ELSE total > threshold * n

\* avg_change < threshold
Below(total, n, threshold, e) ==
    IF total = threshold * n THEN e < 0 ELSE total < threshold * n

ChargingStatus(h, e) ==
    IF Len(h) < 2 THEN "insufficient_data"
    ELSE LET recent_history == LastN(h, Recent) IN
         IF Len(recent_history) < 2 THEN "insufficient_data"
         ELSE LET voltage_changes == VoltageChanges(recent_history)
                  total == SumSeq(voltage_changes)
                  n == Len(voltage_changes)
              IN  IF Above(total, n, ChargingThreshold, e) THEN "charging"
                  ELSE IF Below(total, n, DischargingThreshold, e)
                       THEN "discharging"
                       ELSE "stable"

RECURSIVE SeqsUpTo(_, _)
SeqsUpTo(S, n) ==
    IF n = 0 THEN {<<>>}
    ELSE LET shorter == SeqsUpTo(S, n - 1)
         IN  shorter \cup {Append(q, v) : q \in shorter, v \in S}

StatusInputs ==
    {[fn |-> "status", h |-> q, e |-> e] :
        q \in SeqsUpTo(Voltages, MaxHistory), e \in RoundErr}

\* None
NoResult == [kind |-> "none"]

\* The text of an answer to AT+CBC.  prefix: what stands before the
\* numbers; nf: how many comma-separated numbers follow; s, l: the first
\* two; m: the third, a voltage in thousandths of a volt, written either as
\* an integer of millivolts ("4156", form "mV") or as volts with a decimal
\* point and a V ("4.156V", form "V"); ok: whether "OK" ends the answer.
CbcTexts ==
    [prefix : {"+CBC:", "CBC:", ""}, nf : {0, 2, 3}, s : {0}, l : {87, 100},
     m : {4156, 3700}, form : {"mV", "V"}, ok : BOOLEAN]

\* a decimal number of volts: <<4, 156>> is 4.156
Volts(whole, thousandths) == <<whole, thousandths>>

\* voltage_v = voltage_mv / 1000.0
MilliVoltsToVolts(mv) == Volts(mv \div 1000, mv % 1000)

\* The patterns of get_battery_voltage, in the order they are tried.
\* prefix: the literal the pattern begins with; groups: its (\d+) groups.
Patterns ==
    << [prefix |-> "+CBC:", groups |-> 3],
       [prefix |-> "CBC:",  groups |-> 3],
       [prefix |-> "+CBC:", groups |-> 2],
       [prefix |-> "CBC:",  groups |-> 2],
       [prefix |-> "",      groups |-> 3],
       [prefix |-> "",      groups |-> 2] >>

\* re.search(pattern, resp): the literal occurs in the text ("CBC:" also
\* inside "+CBC:") and at least as many numbers follow as the pattern has
\* groups
Matches(p, r) ==
    /\ p.prefix = "+CBC:" => r.prefix = "+CBC:"
    /\ p.prefix = "CBC:" => r.prefix \in {"+CBC:", "CBC:"}
    /\ r.nf >= p.groups

\* the first pattern that matches (0: none)
FirstPattern(r) ==
    IF \E i \in 1..Len(Patterns) : Matches(Patterns[i], r)
    THEN CHOOSE i \in 1..Len(Patterns) :
            /\ Matches(Patterns[i], r)
            /\ \A j \in 1..(i - 1) : ~Matches(Patterns[j], r)
    ELSE 0

\* what (\d+) captures of the third number: all of "4156", and the digits
\* before the point of "4.156V"
ThirdGroup(r) == IF r.form = "mV" THEN r.m ELSE r.m \div 1000

\* get_battery_voltage of sim800l_hat.py, from the answer to its result
HatParseBattery(r) ==
    LET i == FirstPattern(r) IN
    IF i = 0 THEN NoResult
    ELSE IF Patterns[i].groups >= 3
         THEN [kind |-> "battery",
               voltage |-> MilliVoltsToVolts(ThirdGroup(r)),
               voltage_mv |-> ThirdGroup(r),
               charge_level |-> r.l]
         ELSE NoResult

\* SMSManager.get_battery_voltage: success of send_command("AT+CBC"),
\* "+CBC:" in the response and \+CBC:\s*\d+,\d+,(\d+\.\d+)V
MgrParseBattery(r) ==
    IF r.ok /\ r.prefix = "+CBC:" /\ r.nf >= 3 /\ r.form = "V"
    THEN [kind |-> "voltage", voltage |-> Volts(r.m \div 1000, r.m % 1000)]
    ELSE NoResult

CbcInputs ==
    {[fn |-> f, text |-> r] : f \in {"hat_cbc", "mgr_cbc"}, r \in CbcTexts}

\* rssi and ber as AT+CSQ reports them; matched: the answer has the form
\* +CSQ: <rssi>,<ber>
CsqInputs ==
    {[fn |-> "csq", matched |-> TRUE, rssi |-> r, ber |-> b] :
        r \in 0..99, b \in {0, 7, 99}}
    \cup {[fn |-> "csq", matched |-> FALSE, rssi |-> 0, ber |-> 0]}

SignalQualityGoodAbove15(rssi) ==
    IF rssi = 99 THEN "Unknown"
    ELSE IF rssi = 0 THEN "No Signal"
    ELSE IF rssi >= 20 THEN "Excellent"
    ELSE IF rssi > 15 THEN "Good"
    ELSE IF rssi >= 10 THEN "Fair"
    ELSE IF rssi >= 5 THEN "Poor"
    ELSE "Very Poor"

SignalQuality(rssi) ==
    IF rssi = 99 THEN "Unknown"
    ELSE IF rssi = 0 THEN "No Signal"
    ELSE IF rssi >= 20 THEN "Excellent"
    ELSE IF rssi >= 15 THEN "Good"
    ELSE IF rssi >= 10 THEN "Fair"
    ELSE IF rssi >= 5 THEN "Poor"
    ELSE "Very Poor"

SignalDbmFrom110(rssi) ==
    IF rssi \in {99, 0} THEN <<>> ELSE <<-110 + (2 * rssi)>>

\* signal_dbm: <<>> is None
SignalDbm(rssi) == IF rssi \in {99, 0} THEN <<>> ELSE <<-113 + (2 * rssi)>>

\* get_signal_strength, from the answer to its result
HatSignal(a) ==
    IF a.matched
    THEN [kind |-> "signal", rssi |-> a.rssi, ber |-> a.ber,
          signal_dbm |-> SignalDbm(a.rssi),
          signal_quality |-> SignalQuality(a.rssi)]
    ELSE NoResult

InitTelemetry ==
    /\ EngineIdle
    /\ RegIdle
    /\ TimeIdle
    /\ SessIdle
    /\ CtlIdle
    /\ BattIdle
    /\ TailIdle
    /\ qpc = "ready"
    /\ qarg \in StatusInputs \cup CbcInputs \cup CsqInputs
    /\ qret = NoResult

\* determine_battery_charging_status()
TeleStatus ==
    /\ qpc = "ready"
    /\ qarg.fn = "status"
    /\ qret' = [kind |-> "status",
                charging_status |-> ChargingStatus(qarg.h, qarg.e)]
    /\ qpc' = "done"
    /\ UNCHANGED <<qarg, teleFrame>>

\* get_battery_voltage() of sim800l_hat.py
TeleHatBattery ==
    /\ qpc = "ready"
    /\ qarg.fn = "hat_cbc"
    /\ qret' = HatParseBattery(qarg.text)
    /\ qpc' = "done"
    /\ UNCHANGED <<qarg, teleFrame>>

\* SMSManager.get_battery_voltage()
TeleMgrBattery ==
    /\ qpc = "ready"
    /\ qarg.fn = "mgr_cbc"
    /\ qret' = MgrParseBattery(qarg.text)
    /\ qpc' = "done"
    /\ UNCHANGED <<qarg, teleFrame>>

\* get_signal_strength()
TeleSignal ==
    /\ qpc = "ready"
    /\ qarg.fn = "csq"
    /\ qret' = HatSignal(qarg)
    /\ qpc' = "done"
    /\ UNCHANGED <<qarg, teleFrame>>

NextTelemetry ==
    \/ TeleStatus
    \/ TeleHatBattery
    \/ TeleMgrBattery
    \/ TeleSignal

SpecTelemetry == InitTelemetry /\ [][NextTelemetry]_vars

\* C18: with fewer than 2 samples the status is insufficient_data; otherwise
\* a mean successive delta of the last at most 5 samples above +10 mV gives
\* charging, below -5 mV discharging, and anything else stable.
C18_ChargingStatusByMeanDelta ==
    (qpc = "done" /\ qarg.fn = "status") =>
        LET last5 == LastN(qarg.h, 5)
            deltas == Len(last5) - 1
            \* the mean successive delta times the number of deltas
            total == SumSeq(VoltageChanges(last5))
        IN  qret.charging_status =
                IF Len(qarg.h) < 2 THEN "insufficient_data"
                ELSE IF total > 10 * deltas THEN "charging"
                ELSE IF total < (-5) * deltas THEN "discharging"
                ELSE "stable"

\* C19: an answer "+CBC: s,l,m" with three integer fields yields charge
\* level l and voltage m/1000 volts.
C19_ThreeFieldsGiveLevelAndVolts ==
    (/\ qpc = "done"
     /\ qarg.fn \in {"hat_cbc", "mgr_cbc"}
     /\ qarg.text.prefix = "+CBC:"
     /\ qarg.text.nf = 3
     /\ qarg.text.form = "mV"
     /\ qarg.text.ok) =>
        /\ qret.kind = "battery"
        /\ qret.charge_level = qarg.text.l
        /\ qret.voltage = Volts(qarg.text.m \div 1000, qarg.text.m % 1000)

\* C20: get_signal_strength gives every rssi one quality: 99 Unknown, 0 No
\* Signal, 20 or more Excellent, 15..19 Good, 10..14 Fair, 5..9 Poor and
\* 1..4 Very Poor.
C20_EveryRssiHasOneBucket ==
    (qpc = "done" /\ qarg.fn = "csq" /\ qarg.matched) =>
        LET rssi == qarg.rssi
            q == qret.signal_quality
        IN  /\ rssi = 99 => q = "Unknown"
            /\ rssi = 0 => q = "No Signal"
            /\ (rssi >= 20 /\ rssi # 99) => q = "Excellent"
            /\ rssi \in 15..19 => q = "Good"
            /\ rssi \in 10..14 => q = "Fair"
            /\ rssi \in 5..9 => q = "Poor"
            /\ rssi \in 1..4 => q = "Very Poor"

\* the boundary of two buckets has been mapped
C20_Witness ==
    /\ qpc = "done"
    /\ qarg.fn = "csq"
    /\ qarg.matched
    /\ qarg.rssi = 15
    /\ qret.signal_quality = "Good"

\* C21 as stated: the answer "+CSQ: 15,99" yields rssi 15, quality "Fair"
\* and -83 dBm.
C21_Csq15IsFair ==
    (qpc = "done" /\ qarg.fn = "csq" /\ qarg.matched
        /\ qarg.rssi = 15 /\ qarg.ber = 99) =>
        /\ qret.rssi = 15
        /\ qret.signal_quality = "Fair"
        /\ qret.signal_dbm = <<-83>>

\* C21 as the code has it: the answer "+CSQ: 15,99" yields rssi 15, quality
\* "Good" and -83 dBm; every rssi other than 0 and 99 yields -113 + 2*rssi.
C21_Csq15IsGood ==
    (qpc = "done" /\ qarg.fn = "csq" /\ qarg.matched) =>
        /\ (qarg.rssi = 15 /\ qarg.ber = 99) =>
              /\ qret.rssi = 15
              /\ qret.ber = 99
              /\ qret.signal_quality = "Good"
              /\ qret.signal_dbm = <<-83>>
        /\ qarg.rssi \notin {0, 99} =>
              qret.signal_dbm = <<-113 + 2 * qarg.rssi>>

\* "+CSQ: 15,99" has been parsed
C21_Witness ==
    /\ qpc = "done"
    /\ qarg.fn = "csq"
    /\ qarg.matched
    /\ qarg.rssi = 15
    /\ qarg.ber = 99
    /\ qret.signal_dbm = <<-83>>

\* ------------------------------------------------------------------------
\* The timeout send_command chooses (the SMS manager and recv_sms.py)
\* ------------------------------------------------------------------------
\* A command is the sequence of its parts: <<"AT", "+COPS", "=", "0">> is
\* AT+COPS=0, <<"AT", "+COPS", "?">> is AT+COPS?, <<"AT", "+COPS", "=", "?">>
\* is AT+COPS=?.
CommandNames == {"+COPS", "+CFUN", "+CPIN", "+CREG", "+CMGF"}
Commands ==
    {<<"AT">>}
    \cup {<<"AT", n>> : n \in CommandNames}
    \cup {<<"AT", n, "?">> : n \in CommandNames}
    \cup {<<"AT", n, "=", "?">> : n \in CommandNames}
    \cup {<<"AT", n, "=", v>> : n \in CommandNames, v \in {"0", "1"}}

\* the timeout argument: <<>> is None, <<t>> is t ticks of 10 ms
TimeoutArgs == {<<>>, <<100>>, <<1000>>, <<3000>>}

\* command.startswith(prefix)
StartsWith(command, prefix) ==
    /\ Len(command) >= Len(prefix)
    /\ SubSeq(command, 1, Len(prefix)) = prefix

\* part in command
Contains(command, part) == \E i \in 1..Len(command) : command[i] = part

CommandClassQueryFirst(command) ==
    IF Contains(command, "?") THEN "query"
    ELSE IF StartsWith(command, <<"AT", "+COPS", "=">>) THEN "cops"
    ELSE IF StartsWith(command, <<"AT", "+CFUN", "=">>) THEN "cfun"
    ELSE IF StartsWith(command, <<"AT", "+CPIN", "=">>) THEN "cpin"
    ELSE "other"

\* the branch of the if/elif chain the command takes
CommandClass(command) ==
    IF StartsWith(command, <<"AT", "+COPS", "=">>) THEN "cops"
    ELSE IF StartsWith(command, <<"AT", "+CFUN", "=">>) THEN "cfun"
    ELSE IF StartsWith(command, <<"AT", "+CPIN", "=">>) THEN "cpin"
    ELSE IF Contains(command, "?") THEN "query"
    ELSE "other"

\* the timeout given to send_at
ChosenTimeout(command, timeout) ==
    IF timeout = <<>> THEN TimeoutFor(CommandClass(command)) ELSE timeout[1]

TimeoutInputs ==
    {[fn |-> f, command |-> c, timeout |-> t] :
        f \in {"mgr_timeout", "recv_timeout"}, c \in Commands,
        t \in TimeoutArgs}

InitPolicy ==
    /\ EngineIdle
    /\ RegIdle
    /\ TimeIdle
    /\ SessIdle
    /\ CtlIdle
    /\ BattIdle
    /\ TailIdle
    /\ qpc = "ready"
    /\ qarg \in TimeoutInputs
    /\ qret = NoResult

\* SMSManager.send_command, up to the call of send_at
MgrChooseTimeout ==
    /\ qpc = "ready"
    /\ qarg.fn = "mgr_timeout"
    /\ qret' = [kind |-> "timeout",
                timeout |-> ChosenTimeout(qarg.command, qarg.timeout)]
    /\ qpc' = "done"
    /\ UNCHANGED <<qarg, teleFrame>>

\* send_command of recv_sms.py, up to the call of send_at
RecvChooseTimeout ==
    /\ qpc = "ready"
    /\ qarg.fn = "recv_timeout"
    /\ qret' = [kind |-> "timeout",
                timeout |-> ChosenTimeout(qarg.command, qarg.timeout)]
    /\ qpc' = "done"
    /\ UNCHANGED <<qarg, teleFrame>>

NextPolicy ==
    \/ MgrChooseTimeout
    \/ RecvChooseTimeout

SpecPolicy == InitPolicy /\ [][NextPolicy]_vars

\* C22: without an explicit timeout an operator-selection command
\* (AT+COPS=...) gets 15 s, a functionality-mode change (AT+CFUN=...) 8 s, a
\* PIN submission (AT+CPIN=...) 5 s, any other command with a "?" 3 s and
\* every other command 2 s.
C22_TimeoutByCommandClass ==
    (qpc = "done" /\ qarg.fn \in {"mgr_timeout", "recv_timeout"}
        /\ qarg.timeout = <<>>) =>
        LET c == qarg.command
            sets == Len(c) >= 3 /\ c[3] = "="
            name == IF Len(c) >= 2 THEN c[2] ELSE ""
            asks == \E i \in 1..Len(c) : c[i] = "?"
        IN  qret.timeout =
                IF sets /\ name = "+COPS" THEN 1500
                ELSE IF sets /\ name = "+CFUN" THEN 800
                ELSE IF sets /\ name = "+CPIN" THEN 500
                ELSE IF asks THEN 300
                ELSE 200

\* a command that both selects an operator and holds a "?" got 15 s
C22_Witness ==
    /\ qpc = "done"
    /\ qarg.fn = "mgr_timeout"
    /\ qarg.timeout = <<>>
    /\ qarg.command = <<"AT", "+COPS", "=", "?">>
    /\ qret.timeout = 1500

\* ------------------------------------------------------------------------
\* flush_uart (the SMS manager and sim800l_hat.py) and the read after it
\* ------------------------------------------------------------------------
MaxOld == 3          \* bytes in the buffer when flush_uart is called
MaxArrivals == 2     \* bytes the modem sends while the caller is followed

flushFrame ==
    <<engineVars, regVars, timeVars, sessVars, ctlVars, battVars, teleVars,
      pinVars, lastVars>>

EntryCountZero(impl) == 0

\* count before the loop: "count = 1" in the manager; sim800l_hat.py has
\* "while True" and no count yet
EntryCount(impl) == IF impl = "mgr" THEN 1 ELSE 0

InitFlush ==
    /\ EngineIdle
    /\ RegIdle
    /\ TimeIdle
    /\ SessIdle
    /\ CtlIdle
    /\ BattIdle
    /\ TeleIdle
    /\ PinIdle
    /\ LastIdle
    /\ ximpl \in {"mgr", "hat"}
    /\ xpc = IF ximpl = "mgr" THEN "while" ELSE "body"
    /\ xbuf \in 0..MaxOld
    /\ xcount = EntryCount(ximpl)
    /\ xsince = 0
    /\ xleft \in 0..MaxArrivals
    /\ xcleared = 0

\* the modem sends a byte; pigpio puts it into the buffer
FlushArrive ==
    /\ xpc # "read"
    /\ xleft > 0
    /\ xleft' = xleft - 1
    /\ xbuf' = xbuf + 1
    /\ xsince' = xsince + 1
    /\ UNCHANGED <<xpc, ximpl, xcount, xcleared, flushFrame>>

\* the manager's "while count > 0:"
FlushWhile ==
    /\ xpc = "while"
    /\ xpc' = IF xcount > 0 THEN "body" ELSE "flushed"
    /\ UNCHANGED <<ximpl, xbuf, xcount, xsince, xleft, xcleared, flushFrame>>

\* count, data = pi.bb_serial_read(RX_PIN): all the buffer holds; in
\* sim800l_hat.py followed by "if count == 0: break"
FlushBody ==
    /\ xpc = "body"
    /\ xcount' = xbuf
    /\ xbuf' = 0
    /\ xsince' = 0
    /\ xcleared' = xcleared + xbuf
    /\ xpc' = IF ximpl = "mgr" THEN "while"
              ELSE IF xbuf = 0 THEN "flushed" ELSE "body"
    /\ UNCHANGED <<ximpl, xleft, flushFrame>>

\* the next pi.bb_serial_read(RX_PIN) after flush_uart has returned
FlushThenRead ==
    /\ xpc = "flushed"
    /\ xcount' = xbuf
    /\ xbuf' = 0
    /\ xsince' = 0
    /\ xpc' = IF xsince = 0 THEN "read" ELSE "read_late"
    /\ UNCHANGED <<ximpl, xleft, xcleared, flushFrame>>

NextFlush ==
    \/ FlushArrive
    \/ FlushWhile
    \/ FlushBody
    \/ FlushThenRead

SpecFlush == InitFlush /\ [][NextFlush]_vars

\* C23: a read made after flush_uart has returned, with no byte arrived
\* since the last read of flush_uart, returns zero bytes.
C23_ReadAfterFlushIsEmpty == xpc = "read" => xcount = 0

\* the read after a flush that had bytes to clear
C23_Witness == xpc = "read" /\ xcount = 0 /\ xcleared >= 2

\* C24 (sim800l_hat.py): the response send_at returns holds no byte the
\* modem sent in answer to an earlier command, one that had timed out.  The
\* answer to the caller's own command is the last the modem queued for it:
\* of the caller's items in the response, the buffer and the modem's queue,
\* in that order, all but the last Len(Reply) answer an earlier command.
C24_LateBytesNeverInLaterResponse ==
    \A t \in HatCallers :
        pc[t] = "h_ret" =>
            LET Of(q, u) == {i \in 1..Len(q) : q[i].c = u}
                own == Cardinality(Of(resp[t], t))
                ahead == Cardinality(Of(rx \o pending, t))
                reply == Len(Reply(t, "AT", NoIndex, store))
            IN  /\ \A u \in HatCallers \ {t} : Of(resp[t], u) = {}
                /\ own > 0 => own + ahead <= reply

\* ------------------------------------------------------------------------
\* The SIM unlock of the three engines, against a SIM that counts the wrong
\* PINs it is given
\* ------------------------------------------------------------------------
MaxPinAttempts == 3      \* wrong PINs a SIM accepts before it asks for the PUK

pinFrame ==
    <<engineVars, regVars, timeVars, sessVars, ctlVars, battVars, teleVars,
      flushVars, lastVars>>

Engines == {"recv", "mgr", "hat"}

\* sim800l_hat.py writes AT+CPIN=<SIM_PIN> without asking AT+CPIN? first
InitUnlock ==
    /\ EngineIdle
    /\ RegIdle
    /\ TimeIdle
    /\ SessIdle
    /\ CtlIdle
    /\ BattIdle
    /\ TeleIdle
    /\ FlushIdle
    /\ LastIdle
    /\ uengine \in Engines
    /\ upc = IF uengine = "hat" THEN "unlock" ELSE "cpin"
    /\ uhaspin \in BOOLEAN
    /\ upinok \in BOOLEAN
    /\ usim \in {"ready", "locked"}
    /\ uleft \in 1..MaxPinAttempts
    /\ utrace = <<>>
    /\ urejected = FALSE

\* what the modem answers to AT+CPIN?
CpinAnswer == CASE usim = "ready" -> "ready"
                [] usim = "locked" -> "simpin"
                [] OTHER -> "simpuk"

\* where check_cpin (recv_sms.py) and initialize_module go on what they
\* read: "READY" / "SIM PIN" in the response, or neither ("lost": nothing
\* came within the timeout)
AfterQuery(engine, seen) ==
    IF engine = "recv"
    THEN CASE seen = "ready" -> "unlocked"
           [] seen = "simpin" -> "unlock"
           [] OTHER -> "failed"
    ELSE IF seen = "simpin" THEN "unlock" ELSE "unlocked"

\* success, response = self.send_command("AT+CPIN?", 0.1)
UnlockQuery(heard) ==
    /\ uengine \in {"recv", "mgr"}
    /\ upc = "cpin"
    /\ LET seen == IF heard THEN CpinAnswer ELSE "lost"
       IN  /\ utrace' = Append(utrace, <<"query", seen>>)
           /\ upc' = AfterQuery(uengine, seen)
    /\ UNCHANGED <<uengine, uhaspin, upinok, usim, uleft, urejected, pinFrame>>

\* if not SIM_PIN: return False
UnlockNoPin ==
    /\ uengine \in {"recv", "mgr"}
    /\ upc = "unlock"
    /\ ~uhaspin
    /\ upc' = "failed"
    /\ UNCHANGED <<uengine, uhaspin, upinok, usim, uleft, utrace, urejected,
                   pinFrame>>

AfterSubmitRetry(engine, success) ==
    CASE engine = "hat" -> "settle"
      [] engine = "recv" -> IF success THEN "settle" ELSE "unlock"
      [] OTHER -> IF success THEN "unlocked" ELSE "unlock"

\* where the engine goes after AT+CPIN=<SIM_PIN>: unlock_sim sleeps 2 s on
\* success and returns success; initialize_module returns False on failure
\* and goes on otherwise; sim800l_hat.py ignores the answer and sleeps 1 s
AfterSubmit(engine, success) ==
    CASE engine = "hat" -> "settle"
      [] engine = "recv" -> IF success THEN "settle" ELSE "failed"
      [] OTHER -> IF success THEN "unlocked" ELSE "failed"

\* send_command(f"AT+CPIN={SIM_PIN}", 0.1): the SIM takes the right PIN
\* when it is locked and counts a wrong one; heard: the answer came within
\* the timeout
UnlockSubmit(heard) ==
    /\ upc = "unlock"
    /\ uhaspin \/ uengine = "hat"
    /\ LET accepted == usim = "locked" /\ uhaspin /\ upinok
           counted == usim = "locked" /\ ~accepted
       IN  /\ usim' = IF accepted THEN "ready"
                      ELSE IF counted /\ uleft = 1 THEN "puk"
                      ELSE usim
           /\ uleft' = IF counted THEN uleft - 1 ELSE uleft
           /\ urejected' = (urejected \/ ~accepted)
           /\ utrace' = Append(utrace,
                  <<"submit", IF ~heard THEN "lost"
                              ELSE IF accepted THEN "ok" ELSE "error">>)
           /\ upc' = AfterSubmit(uengine, heard /\ accepted)
    /\ UNCHANGED <<uengine, uhaspin, upinok, pinFrame>>

\* time.sleep(2) of unlock_sim, time.sleep(1) of sim800l_hat.py; then the
\* engine goes on as with an unlocked SIM
UnlockSettle ==
    /\ upc = "settle"
    /\ utrace' = Append(utrace, <<"sleep", "none">>)
    /\ upc' = "unlocked"
    /\ UNCHANGED <<uengine, uhaspin, upinok, usim, uleft, urejected, pinFrame>>

NextUnlock ==
    \/ \E heard \in BOOLEAN : UnlockQuery(heard)
    \/ UnlockNoPin
    \/ \E heard \in BOOLEAN : UnlockSubmit(heard)
    \/ UnlockSettle

SpecUnlock == InitUnlock /\ [][NextUnlock]_vars

\* C25 (recv_sms.py and the SMS manager): once the modem has rejected the
\* submitted PIN the unlock has failed, and the PIN is written to the modem
\* at most once.
C25_PinRejectionIsTerminal ==
    uengine \in {"recv", "mgr"} =>
        /\ urejected => upc = "failed"
        /\ Cardinality({i \in 1..Len(utrace) : utrace[i][1] = "submit"}) <= 1

\* the SIM has counted a wrong PIN and the unlock has failed
C25_Witness ==
    /\ uengine \in {"recv", "mgr"}
    /\ urejected
    /\ upc = "failed"
    /\ uleft < MaxPinAttempts
    /\ utrace[Len(utrace)] = <<"submit", "error">>

\* C26: the lock state is queried first, the PIN is submitted only after a
\* query that reported the SIM locked, and the SIM is reported unlocked after
\* a submission only when a second query, after the settle delay, has
\* reported ready.
C26_QuerySubmitVerifyInOrder ==
    LET n == Len(utrace)
        submits == {i \in 1..n : utrace[i][1] = "submit"}
    IN  /\ \A i \in submits : i > 1 /\ utrace[i - 1] = <<"query", "simpin">>
        /\ (upc = "unlocked" /\ submits # {}) =>
              /\ n >= 2
              /\ utrace[n] = <<"query", "ready">>
              /\ utrace[n - 1] = <<"sleep", "none">>

\* C27 as stated (test_basic_communication of recv_sms.py): the probes are
\* bounded, the recovery steps follow a silent probe only, slower timing
\* first and the bursts after it, and failure is declared only after the
\* recovery steps have been tried.
C27_FailureOnlyAfterEscalation ==
    sengine = "recv" =>
        /\ sprobes <= CommAttempts * (2 + WakeProbes + AutobaudProbes)
        /\ \A i \in 1..Len(strace) :
              /\ strace[i][1] = "slow" =>
                    i > 1 /\ strace[i - 1] = <<"probe", "silence">>
              /\ strace[i][1] = "wake" =>
                    i > 1 /\ strace[i - 1] = <<"slow", "none">>
              /\ strace[i][1] = "autobaud" =>
                    i > 1 /\ strace[i - 1] = <<"wake", "none">>
        /\ sfail = "comm" =>
              \E i \in 1..Len(strace) : strace[i] = <<"autobaud", "none">>

\* C27 as the code has it: the probes are bounded, the recovery steps follow
\* a silent probe only, slower timing first and the two bursts after it, and
\* failure is declared after three attempts, each of which ended either with
\* a probe answered by text without OK or with the last recovery step.
C27_FailureAfterThreeAttempts ==
    sengine = "recv" =>
        /\ sprobes <= CommAttempts * (2 + WakeProbes + AutobaudProbes)
        /\ \A i \in 1..Len(strace) :
              /\ strace[i][1] = "slow" =>
                    i > 1 /\ strace[i - 1] = <<"probe", "silence">>
              /\ strace[i][1] = "wake" =>
                    i > 1 /\ strace[i - 1] = <<"slow", "none">>
              /\ strace[i][1] = "autobaud" =>
                    i > 1 /\ strace[i - 1] = <<"wake", "none">>
              /\ (strace[i] = <<"probe", "silence">> /\ sfail = "comm") =>
                    /\ i + 3 <= Len(strace)
                    /\ strace[i + 3] = <<"autobaud", "none">>
        /\ sfail = "comm" =>
              Cardinality({i \in 1..Len(strace) : strace[i][1] = "probe"})
                  = CommAttempts

\* communication failed after a silent attempt with all its recovery steps
\* and two attempts answered by text
C27_Witness ==
    /\ sengine = "recv"
    /\ sfail = "comm"
    /\ strace = << <<"probe", "silence">>, <<"slow", "none">>,
                   <<"wake", "none">>, <<"autobaud", "none">>,
                   <<"probe", "text">>, <<"probe", "text">> >>

\* C28 as stated: during the polling an idle report is answered by the
\* re-enable of registration with a retry of automatic selection for the
\* first five idle reports, and by the escalation (automatic selection
\* forced, the GPRS registration enabled) for every later one.
C28_FirstFiveIdleReportsReenable ==
    [][(rpc = "loop" /\ attempt' = attempt + 1 /\ rlast' = "idle") =>
          IF reenables + escalations < 5
          THEN /\ reenables' = reenables + 1
               /\ escalations' = escalations
               /\ \E i \in 1..Len(rsent') : rsent'[i] = "AT+CREG=1"
               /\ \E i \in 1..Len(rsent') : rsent'[i] = "AT+COPS=0"
          ELSE /\ escalations' = escalations + 1
               /\ reenables' = reenables
               /\ rsent' = <<"AT+COPS=0", "AT+CGREG=1">>]_vars

\* C28 as the code has it: an idle report in one of the first five polls of
\* the loop is answered by AT+CREG=1 alone, an idle report in any later poll
\* by AT+COPS=0 and AT+CGREG=1; no other report is answered by a command.
C28_IdleInFirstFivePollsReenables ==
    [][(rpc = "loop" /\ attempt' = attempt + 1) =>
          IF rlast' = "idle"
          THEN IF attempt < 5
               THEN /\ reenables' = reenables + 1
                    /\ escalations' = escalations
                    /\ rsent' = <<"AT+CREG=1">>
               ELSE /\ escalations' = escalations + 1
                    /\ reenables' = reenables
                    /\ rsent' = <<"AT+COPS=0", "AT+CGREG=1">>
          ELSE /\ rsent' = <<>>
               /\ reenables' = reenables
               /\ escalations' = escalations]_vars

\* the first idle report of the loop came after the fifth poll and was
\* answered by the escalation
C28_Witness ==
    /\ rlast = "idle"
    /\ reenables = 0
    /\ escalations = 1
    /\ rsent = <<"AT+COPS=0", "AT+CGREG=1">>

\* ------------------------------------------------------------------------
\* read_single_sms and its fallback check_and_read_sms (recv_sms.py)
\* ------------------------------------------------------------------------
MaxLines == 3        \* lines in the answer to AT+CMGR=<index>
MaxIndex == 2        \* slots of the message store

readFrame ==
    <<engineVars, regVars, timeVars, sessVars, ctlVars, battVars, teleVars,
      flushVars, pinVars, failVars, endVars>>

\* A line of the answer to AT+CMGR: "hdr" is a +CMGR: line of at least three
\* comma-separated parts, "short" a +CMGR: line of fewer parts, "text" any
\* other line (taken not to hold the letters OK), "OK" and "ERROR" the
\* final result codes.
ReadLines == {"hdr", "short", "text", "OK", "ERROR"}

ReadResponses == UNION {[1..n -> ReadLines] : n \in 0..MaxLines}

\* A line of the answer to AT+CMGL: k as above, idx the index of a +CMGL:
\* header and 0 on every other line.
ListHdr(i) == [k |-> "hdr", idx |-> i]
ListLine(kind) == [k |-> kind, idx |-> 0]

ListResponses ==
    { <<>>,
      <<ListLine("OK")>>,
      <<ListLine("ERROR")>>,
      <<ListHdr(1), ListLine("text"), ListLine("OK")>>,
      <<ListHdr(2), ListLine("text"), ListLine("OK")>>,
      <<ListHdr(1), ListLine("text")>>,
      <<ListHdr(1), ListLine("text"), ListHdr(2), ListLine("text"),
        ListLine("OK")>>,
      <<ListLine("short"), ListLine("text"), ListLine("OK")>>,
      <<ListHdr(2), ListLine("OK")>> }

NoMessage == [kind |-> "none"]
Message(i, from) == [kind |-> "msg", index |-> i, via |-> from]

\* success = expected_response in response, with expected_response "OK"
ReadSucceeds(lines) == \E i \in 1..Len(lines) : lines[i] = "OK"
ListSucceeds(lines) == \E i \in 1..Len(lines) : lines[i].k = "OK"

\* the loop over the lines of the answer to AT+CMGR: the first +CMGR: line
\* of three parts or more that has a line after it gives the message
ParsesRead(lines) == \E i \in 1..Len(lines) - 1 : lines[i] = "hdr"

\* the loop of check_and_read_sms over the lines of the answer to AT+CMGL:
\* the indexes of the +CMGL: lines of three parts or more that have a line
\* after them
ListedIndexes(lines) ==
    {lines[i].idx : i \in {j \in 1..Len(lines) - 1 : lines[j].k = "hdr"}}

\* check_and_read_sms: [] when AT+CMGF=1 or AT+CMGL="ALL" is not acknowledged
CheckAndReadSms(mode, lines) ==
    IF mode /\ ListSucceeds(lines) THEN ListedIndexes(lines) ELSE {}

\* the commands check_and_read_sms writes
ListCommands(mode) ==
    IF mode THEN <<"AT+CMGF=1", "AT+CMGL">> ELSE <<"AT+CMGF=1">>

\* "if message and auto_delete: self.delete_sms(index)"
DeleteCommands(found, auto) == IF found /\ auto THEN <<"AT+CMGD">> ELSE <<>>

\* "if not success:" after AT+CMGR=<index>
FallsBack(lines) == ~ReadSucceeds(lines)

InitRead ==
    /\ EngineIdle
    /\ RegIdle
    /\ TimeIdle
    /\ SessIdle
    /\ CtlIdle
    /\ BattIdle
    /\ TeleIdle
    /\ FlushIdle
    /\ PinIdle
    /\ FailIdle
    /\ EndIdle
    /\ gpc = "start"
    /\ gindex \in 1..MaxIndex
    /\ gauto \in BOOLEAN
    /\ gresp \in ReadResponses
    /\ glisting \in ListResponses
    /\ gmode \in BOOLEAN
    /\ gtrace = <<>>
    /\ gret = [kind |-> "pending"]

\* read_single_sms up to the fallback: AT+CMGR=<index>, the parse of its
\* answer, the deletion, the return
ReadSingleSms ==
    /\ gpc = "start"
    /\ IF FallsBack(gresp)
       THEN /\ gpc' = "fallback"
            /\ gtrace' = <<"AT+CMGR">>
            /\ UNCHANGED gret
       ELSE /\ gpc' = "done"
            /\ gtrace' = <<"AT+CMGR">> \o DeleteCommands(ParsesRead(gresp), gauto)
            /\ gret' = IF ParsesRead(gresp)
                       THEN Message(gindex, "read")
                       ELSE NoMessage
    /\ UNCHANGED <<gindex, gauto, gresp, glisting, gmode, readFrame>>

\* the fallback: check_and_read_sms, then the entry of the requested index
ReadFallback ==
    /\ gpc = "fallback"
    /\ gpc' = "done"
    /\ LET found == gindex \in CheckAndReadSms(gmode, glisting)
       IN  /\ gtrace' = gtrace \o ListCommands(gmode) \o DeleteCommands(found, gauto)
           /\ gret' = IF found THEN Message(gindex, "list") ELSE NoMessage
    /\ UNCHANGED <<gindex, gauto, gresp, glisting, gmode, readFrame>>

NextRead == ReadSingleSms \/ ReadFallback

SpecRead == InitRead /\ [][NextRead]_vars

\* C29: when the answer to the single-slot read has no well-formed header
\* line, readSlot(index) has called listAll() by the time it returns, and
\* returns the entry of the requested index when listAll() gives one.
C29_MalformedHeaderFallsBackToList ==
    (gpc = "done" /\ ~ParsesRead(gresp)) =>
        /\ \E i \in 1..Len(gtrace) : gtrace[i] = "AT+CMGF=1"
        /\ gindex \in CheckAndReadSms(gmode, glisting) =>
               gret = Message(gindex, "list")

\* ------------------------------------------------------------------------
\* How an operation that failed ends: send_command of the SMS manager and
\* wait_for_modem of sim800l_hat.py
\* ------------------------------------------------------------------------
\* wait_for_modem(timeout=30): an iteration sleeps 1 s under the lock and 1 s
\* after it, so 15 iterations begin before the deadline
WaitProbes == 15

failFrame ==
    <<engineVars, regVars, timeVars, sessVars, ctlVars, battVars, teleVars,
      flushVars, pinVars, readVars, endVars>>

\* what the read after a command collects before its timeout: nothing, text
\* without a result code, text and OK, OK alone, the prompt
Answers == {<<>>, <<"text">>, <<"text", "OK">>, <<"OK">>, <<">">>}

\* expected_response in response
InResponse(e, got) == \E i \in 1..Len(got) : got[i] = e

Returned(ok, raw) == [kind |-> "ret", ok |-> ok, raw |-> raw]
Raised(what) == [kind |-> "raised", ok |-> FALSE, raw |-> <<what>>]

InitFail ==
    /\ EngineIdle
    /\ RegIdle
    /\ TimeIdle
    /\ SessIdle
    /\ CtlIdle
    /\ BattIdle
    /\ TeleIdle
    /\ FlushIdle
    /\ PinIdle
    /\ ReadIdle
    /\ EndIdle
    /\ opc = "call"
    /\ oop \in {"send_command", "wait_for_modem"}
    /\ oconn \in BOOLEAN
    /\ oexpect \in {"OK", ">"}
    /\ odb \in BOOLEAN
    /\ oraises \in BOOLEAN
    /\ oleft = WaitProbes
    /\ oraw = <<>>
    /\ oret = [kind |-> "pending"]

\* SMSManager.send_command. save_system_message has no handler of its own:
\* what it raises inside the try block reaches the except clause, and what
\* it raises inside the except clause reaches the caller.
MgrSendCommand(got) ==
    /\ opc = "call"
    /\ oop = "send_command"
    /\ opc' = "done"
    /\ IF ~oconn
       THEN /\ oret' = Returned(FALSE, <<>>)
            /\ UNCHANGED oraw
       ELSE IF oraises
       THEN /\ oret' = IF odb THEN Returned(FALSE, <<>>)
                              ELSE Raised("sqlite3.Error")
            /\ UNCHANGED oraw
       ELSE /\ oraw' = got
            /\ oret' = IF ~InResponse(oexpect, got) /\ oexpect # "OK" /\ ~odb
                       THEN Raised("sqlite3.Error")
                       ELSE Returned(InResponse(oexpect, got), got)
    /\ UNCHANGED <<oop, oconn, oexpect, odb, oraises, oleft, failFrame>>

\* wait_for_modem, one iteration that begins before the deadline
HatWaitProbe(got) ==
    /\ opc = "call"
    /\ oop = "wait_for_modem"
    /\ oleft > 0
    /\ oraw' = got
    /\ IF InResponse("OK", got)
       THEN /\ opc' = "done"
            /\ oret' = Returned(TRUE, <<>>)
            /\ UNCHANGED oleft
       ELSE /\ oleft' = oleft - 1
            /\ UNCHANGED <<opc, oret>>
    /\ UNCHANGED <<oop, oconn, oexpect, odb, oraises, failFrame>>

\* wait_for_modem once the deadline has passed:
\* raise RuntimeError("SIM800L not responding")
HatWaitExpired ==
    /\ opc = "call"
    /\ oop = "wait_for_modem"
    /\ oleft = 0
    /\ opc' = "done"
    /\ oret' = Raised("RuntimeError")
    /\ UNCHANGED <<oop, oconn, oexpect, odb, oraises, oleft, oraw, failFrame>>

NextFail ==
    \/ \E got \in Answers : MgrSendCommand(got)
    \/ \E got \in Answers : HatWaitProbe(got)
    \/ HatWaitExpired

SpecFail == InitFail /\ [][NextFail]_vars

\* C30: an operation that ends without success because the modem did not
\* answer in time or the engine is not connected returns a failure status
\* with the raw response collected so far, and raises nothing to its caller.
C30_FailureIsReturnedNotRaised ==
    (opc = "done" /\ ~oraises /\ ~(oret.kind = "ret" /\ oret.ok)) =>
        /\ oret.kind = "ret"
        /\ oret.raw = oraw

\* every group of variables of the specifications above, and its idle state
baseVars ==
    <<engineVars, regVars, timeVars, sessVars, ctlVars, battVars, teleVars,
      flushVars, pinVars, readVars, failVars>>

BaseIdle ==
    /\ EngineIdle
    /\ RegIdle
    /\ TimeIdle
    /\ SessIdle
    /\ CtlIdle
    /\ BattIdle
    /\ TeleIdle
    /\ FlushIdle
    /\ PinIdle
    /\ ReadIdle
    /\ FailIdle

\* ------------------------------------------------------------------------
\* The samplers of sim800l_hat.py called one after the other against a modem
\* whose answers do not change
\* ------------------------------------------------------------------------
MaxSamplerCalls == 3     \* calls of a sampler in a behaviour

sampFrame ==
    <<baseVars, setupVars, dbVars, cmtVars, queueVars, checkVars, reportVars>>

SampOthers == SetupIdle /\ DbIdle /\ CmtIdle /\ QueueIdle /\ CheckIdle /\ ReportIdle

\* the answers to AT+COPS?: matched is whether one of the four patterns of
\* get_network_operator finds +COPS: <mode>,<format>,<oper>[,<act>]
CopsAnswers ==
    {[matched |-> TRUE, mode |-> 0, format |-> 0, oper |-> "MTC", act |-> <<0>>],
     [matched |-> TRUE, mode |-> 1, format |-> 2, oper |-> "64901", act |-> <<>>],
     [matched |-> FALSE, mode |-> 0, format |-> 0, oper |-> "", act |-> <<>>]}

CsqAnswers ==
    {[fn |-> "csq", matched |-> TRUE, rssi |-> r, ber |-> 0] : r \in {0, 15, 99}}
    \cup {[fn |-> "csq", matched |-> FALSE, rssi |-> 0, ber |-> 0]}

\* get_network_operator, from the answer to its result
HatOperator(a) ==
    IF a.matched
    THEN [kind |-> "operator", operator |-> a.oper, mode |-> a.mode,
          format |-> a.format,
          access_technology |-> IF a.act = <<>> THEN "Unknown" ELSE "GSM"]
    ELSE NoResult

\* the engine state a sampler can touch
SamplerState == [history |-> yhist, last |-> ylast, status |-> ystatus]

InitSamplers ==
    /\ BaseIdle
    /\ SampOthers
    /\ ycbc \in CbcTexts
    /\ ycsq \in CsqAnswers
    /\ ycops \in CopsAnswers
    /\ yhist = <<>>
    /\ ylast = <<>>
    /\ ystatus = "unknown"
    /\ ysent = {}
    /\ ylog = <<>>

\* get_battery_voltage(): AT+CBC; with a voltage parsed the globals are
\* assigned, the sample is appended to the history, the history is cut to
\* its last 20 and the charging status is taken from it; with no pattern
\* matched AT+CPAS and AT are written
SampleBattery ==
    /\ Len(ylog) < MaxSamplerCalls
    /\ LET parsed == HatParseBattery(ycbc)
           appended == LastN(Append(yhist, parsed.voltage_mv), Capacity)
       IN  IF parsed # NoResult
           THEN /\ yhist' = appended
                /\ ylast' = <<parsed.voltage_mv>>
                /\ ystatus' = "measured"
                /\ ysent' = ysent \cup {"AT+CBC"}
                /\ ylog' = Append(ylog,
                      [fn |-> "battery",
                       ret |-> [kind |-> "battery",
                                voltage_mv |-> parsed.voltage_mv,
                                charge_level |-> parsed.charge_level,
                                charging_status |-> ChargingStatus(appended, 0)],
                       state |-> [history |-> appended,
                                  last |-> <<parsed.voltage_mv>>,
                                  status |-> "measured"]])
           ELSE /\ ysent' = ysent \cup
                      (IF FirstPattern(ycbc) = 0
                       THEN {"AT+CBC", "AT+CPAS", "AT"} ELSE {"AT+CBC"})
                /\ ylog' = Append(ylog, [fn |-> "battery", ret |-> NoResult,
                                         state |-> SamplerState])
                /\ UNCHANGED <<yhist, ylast, ystatus>>
    /\ UNCHANGED <<ycbc, ycsq, ycops, sampFrame>>

\* get_signal_strength(): AT+CSQ
SampleSignal ==
    /\ Len(ylog) < MaxSamplerCalls
    /\ ysent' = ysent \cup {"AT+CSQ"}
    /\ ylog' = Append(ylog, [fn |-> "signal", ret |-> HatSignal(ycsq),
                             state |-> SamplerState])
    /\ UNCHANGED <<ycbc, ycsq, ycops, yhist, ylast, ystatus, sampFrame>>

\* get_network_operator(): AT+COPS?
SampleOperator ==
    /\ Len(ylog) < MaxSamplerCalls
    /\ ysent' = ysent \cup {"AT+COPS?"}
    /\ ylog' = Append(ylog, [fn |-> "operator", ret |-> HatOperator(ycops),
                             state |-> SamplerState])
    /\ UNCHANGED <<ycbc, ycsq, ycops, yhist, ylast, ystatus, sampFrame>>

NextSamplers == SampleBattery \/ SampleSignal \/ SampleOperator

SpecSamplers == InitSamplers /\ [][NextSamplers]_vars

\* C31: the samplers write only query commands, and a sampler called a
\* second time against the unchanged modem gives the result and leaves the
\* engine state of its first call.
C31_SamplersReadOnlyIdempotent ==
    /\ ysent \subseteq {"AT+CBC", "AT+CSQ", "AT+COPS?", "AT+CPAS", "AT"}
    /\ \A i \in 1..(Len(ylog) - 1) :
          ylog[i].fn = ylog[i + 1].fn =>
              /\ ylog[i + 1].ret = ylog[i].ret
              /\ ylog[i + 1].state = ylog[i].state

\* ------------------------------------------------------------------------
\* Text mode and notifications before the listener: initialize_module and
\* start_listening of the manager, run_sms_receiver and listen_for_new_sms
\* of recv_sms.py, the SIM set-up and the capture loop of sim800l_hat.py
\* ------------------------------------------------------------------------
MaxProcessed == 3        \* notifications a listener processes

setupFrame ==
    <<baseVars, sampVars, dbVars, cmtVars, queueVars, checkVars, reportVars>>

SetupOthers == SampIdle /\ DbIdle /\ CmtIdle /\ QueueIdle /\ CheckIdle /\ ReportIdle

\* what a set-up command is answered with: OK, ERROR, or nothing in time
SetupAnswers == {"OK", "ERROR", "silence"}

InitSetup ==
    /\ BaseIdle
    /\ SetupOthers
    /\ zengine \in Engines
    /\ zpc = "textmode"
    /\ ztext = "none"
    /\ znotify = "none"
    /\ zseen = <<>>

\* after AT+CMGF=1: initialize_module returns False without OK;
\* check_and_read_sms returns [] and run_sms_receiver goes on;
\* sim800l_hat.py does not look at the answer
AfterTextMode(engine, answer) ==
    IF engine = "mgr" /\ answer # "OK" THEN "failed" ELSE "notify"

\* after AT+CNMI: start_listening returns without a thread when OK is
\* missing; listen_for_new_sms turns to poll_for_sms; sim800l_hat.py does
\* not look at the answer
AfterNotify(engine, answer) ==
    IF answer = "OK" \/ engine = "hat" THEN "listening"
    ELSE IF engine = "recv" THEN "polling"
    ELSE "failed"

SetupTextMode(answer) ==
    /\ zpc = "textmode"
    /\ ztext' = answer
    /\ zpc' = AfterTextMode(zengine, answer)
    /\ UNCHANGED <<zengine, znotify, zseen, setupFrame>>

SetupNotifications(answer) ==
    /\ zpc = "notify"
    /\ znotify' = answer
    /\ zpc' = AfterNotify(zengine, answer)
    /\ UNCHANGED <<zengine, ztext, zseen, setupFrame>>

\* the listener takes a notification off the line: +CMTI: "SM",<n> in
\* _sms_listener and listen_for_new_sms, +CMT: in the capture loop
SetupProcess(n) ==
    /\ zpc = "listening"
    /\ Len(zseen) < MaxProcessed
    /\ zseen' = Append(zseen, n)
    /\ UNCHANGED <<zengine, zpc, ztext, znotify, setupFrame>>

NextSetup ==
    \/ \E answer \in SetupAnswers : SetupTextMode(answer)
    \/ \E answer \in SetupAnswers : SetupNotifications(answer)
    \/ \E n \in 1..2 : SetupProcess(n)

SpecSetup == InitSetup /\ [][NextSetup]_vars

\* C32: the listener processes a notification only after the text-mode
\* command and the notification-enable command of the session have each
\* been written and answered with OK.
C32_ListenerOnlyAfterAcknowledgedSetup ==
    zseen # <<>> => (ztext = "OK" /\ znotify = "OK")

\* ------------------------------------------------------------------------
\* Further properties of the SMS manager (checked under Spec)
\* ------------------------------------------------------------------------
\* C33: from the prompt that answers the compose command of send_sms to the
\* transmission of the message body, no other thread flushes, writes or
\* reads the serial line.
C33_SendSmsIsOneTransaction ==
    \A t \in Fg :
        (fop[t] = "sms_body" /\ pc[t] = "sb_lock") =>
            \A u \in MgrThreads \ {t} : ~InTransport(u)

\* ------------------------------------------------------------------------
\* db_execute called from several threads, and DBWorker.run
\* ------------------------------------------------------------------------
MaxQueries == 2          \* calls of db_execute a thread makes

dbFrame ==
    <<baseVars, sampVars, setupVars, cmtVars, queueVars, checkVars,
      reportVars>>

DbOthers == SampIdle /\ SetupIdle /\ CmtIdle /\ QueueIdle /\ CheckIdle /\ ReportIdle

\* the threads that call db_execute: the capture loop, the battery monitor,
\* a request thread of the API; threading.get_ident() is their result_id
DbCallers == {"main", "battery", "flask"}

InitDb ==
    /\ BaseIdle
    /\ DbOthers
    /\ dpc = [t \in DbCallers |-> "idle"]
    /\ dqueue = <<>>
    /\ dresults = <<>>
    /\ dret = [t \in DbCallers |-> "none"]
    /\ dcalls = [t \in DbCallers |-> 0]
    /\ ddropped = {}

\* db_execute: db_queue.put((query, params, result_id))
DbExecutePut(t) ==
    /\ dpc[t] = "idle"
    /\ dcalls[t] < MaxQueries
    /\ dcalls' = [dcalls EXCEPT ![t] = @ + 1]
    /\ dqueue' = Append(dqueue, t)
    /\ dpc' = [dpc EXCEPT ![t] = "wait"]
    /\ UNCHANGED <<dresults, dret, ddropped, dbFrame>>

\* DBWorker.run, one item: the query is executed and (result_id, result,
\* None) or (result_id, None, e) is put on db_result_queue
DbWorkerRun(failed) ==
    /\ dqueue # <<>>
    /\ dqueue' = Tail(dqueue)
    /\ dresults' = Append(dresults,
                          [rid |-> Head(dqueue),
                           n |-> dcalls[Head(dqueue)],
                           error |-> failed])
    /\ UNCHANGED <<dpc, dret, dcalls, ddropped, dbFrame>>

\* db_execute, one turn of its loop: db_result_queue.get(); "if rid ==
\* result_id" returns or raises; any other item is not put back
DbExecuteGet(t) ==
    /\ dpc[t] = "wait"
    /\ dresults # <<>>
    /\ dresults' = Tail(dresults)
    /\ IF Head(dresults).rid = t
       THEN /\ dpc' = [dpc EXCEPT ![t] = "idle"]
            /\ dret' = [dret EXCEPT ![t] =
                           IF Head(dresults).error THEN "raised" ELSE "rows"]
            /\ UNCHANGED ddropped
       ELSE /\ ddropped' = ddropped \cup {<<Head(dresults).rid, Head(dresults).n>>}
            /\ UNCHANGED <<dpc, dret>>
    /\ UNCHANGED <<dqueue, dcalls, dbFrame>>

NextDb ==
    \/ \E t \in DbCallers : DbExecutePut(t)
    \/ \E failed \in BOOLEAN : DbWorkerRun(failed)
    \/ \E t \in DbCallers : DbExecuteGet(t)

SpecDb == InitDb /\ [][NextDb]_vars

\* C34: with concurrent callers of db_execute no result is taken and dropped
\* by a thread it was not produced for, so a caller that waits still has its
\* query in db_queue or its result in db_result_queue.
C34_NoResultDroppedByAnotherCaller ==
    /\ ddropped = {}
    /\ \A t \in DbCallers :
          dpc[t] = "wait" =>
              \/ \E i \in 1..Len(dqueue) : dqueue[i] = t
              \/ \E i \in 1..Len(dresults) : dresults[i].rid = t

\* ------------------------------------------------------------------------
\* The capture loop of sim800l_hat.py: +CMT: header lines and their bodies.
\* The input is counted in lines: bytes of a line that is not complete stay
\* in the buffer until its end has been read.
\* ------------------------------------------------------------------------
MaxMessages == 3         \* messages the modem delivers

cmtFrame ==
    <<baseVars, sampVars, setupVars, dbVars, queueVars, checkVars,
      reportVars>>

CmtOthers == SampIdle /\ SetupIdle /\ DbIdle /\ QueueIdle /\ CheckIdle /\ ReportIdle

\* +CMT: "<sender n>",... and the line of text that follows it
CmtHeader(n) == [k |-> "cmt", n |-> n]
CmtText(n) == [k |-> "text", n |-> n]

RECURSIVE CmtStream(_, _)
CmtStream(n, last) ==
    IF n > last THEN <<>>
    ELSE <<CmtHeader(n), CmtText(n)>> \o CmtStream(n + 1, last)

\* the first i elements of a sequence, and the rest
Take(s, i) == SubSeq(s, 1, i)
Drop(s, i) == SubSeq(s, i + 1, Len(s))

\* the inner "while '\r\n' in buffer": lines are added to the body up to the
\* first +CMT: line, which is put back with all that follows it
BodyPart(buf) ==
    IF \E i \in 1..Len(buf) : buf[i].k = "cmt"
    THEN Take(buf, (CHOOSE i \in 1..Len(buf) :
                       /\ buf[i].k = "cmt"
                       /\ \A j \in 1..(i - 1) : buf[j].k # "cmt") - 1)
    ELSE buf

InitCmt ==
    /\ BaseIdle
    /\ CmtOthers
    /\ kmsgs \in 1..MaxMessages
    /\ kin = CmtStream(1, kmsgs)
    /\ kbuf = <<>>
    /\ kpc = "read"
    /\ ksender = 0
    /\ kbody = <<>>
    /\ krows = <<>>

\* data = uart_read(); buffer += data; "if buffer:" the lines are taken
CmtRead(n) ==
    /\ kpc = "read"
    /\ kbuf' = kbuf \o Take(kin, n)
    /\ kin' = Drop(kin, n)
    /\ kpc' = "lines"
    /\ UNCHANGED <<kmsgs, ksender, kbody, krows, cmtFrame>>

\* one turn of the outer "while '\r\n' in buffer": a +CMT: line opens the
\* collection of a body, any other line is printed and left
CmtLine ==
    /\ kpc = "lines"
    /\ IF kbuf = <<>>
       THEN /\ kpc' = "read"
            /\ UNCHANGED <<kbuf, ksender, kbody>>
       ELSE /\ kbuf' = Tail(kbuf)
            /\ IF Head(kbuf).k = "cmt"
               THEN /\ ksender' = Head(kbuf).n
                    /\ kbody' = <<>>
                    /\ kpc' = "collect"
               ELSE UNCHANGED <<kpc, ksender, kbody>>
    /\ UNCHANGED <<kmsgs, kin, krows, cmtFrame>>

\* one turn of the collecting loop in which uart_read() returns data: only
\* then ("if newdata:") the buffer is split, up to the next +CMT: line,
\* which ends the loop
CmtCollect(n) ==
    /\ kpc = "collect"
    /\ kin' = Drop(kin, n)
    /\ LET buf == kbuf \o Take(kin, n) IN
           /\ kbody' = kbody \o BodyPart(buf)
           /\ kbuf' = Drop(buf, Len(BodyPart(buf)))
           /\ kpc' = IF Len(BodyPart(buf)) < Len(buf) THEN "store" ELSE "collect"
    /\ UNCHANGED <<kmsgs, ksender, krows, cmtFrame>>

\* the 5 s of the collecting loop pass; the modem sends the text of a
\* message right after its header, so they pass only when no text is due
CmtTimeout ==
    /\ kpc = "collect"
    /\ IF kin = <<>> THEN TRUE ELSE Head(kin).k = "cmt"
    /\ kpc' = "store"
    /\ UNCHANGED <<kmsgs, kin, kbuf, ksender, kbody, krows, cmtFrame>>

\* db_execute("INSERT INTO sms ..."), then the outer loop over the buffer
CmtStore ==
    /\ kpc = "store"
    /\ krows' = Append(krows, [sender |-> ksender, text |-> kbody])
    /\ kpc' = "lines"
    /\ UNCHANGED <<kmsgs, kin, kbuf, ksender, kbody, cmtFrame>>

NextCmt ==
    \/ \E n \in 1..Len(kin) : CmtRead(n)
    \/ CmtLine
    \/ \E n \in 1..Len(kin) : CmtCollect(n)
    \/ CmtTimeout
    \/ CmtStore

SpecCmt == InitCmt /\ [][NextCmt]_vars

\* C35: once the modem's lines are read and the loop is back at its read,
\* the table holds one row for each +CMT: header, in order, with the text
\* of the line that followed it.
C35_OneRowPerMessageWithItsBody ==
    (kpc = "read" /\ kin = <<>> /\ kbuf = <<>>) =>
        krows = [i \in 1..kmsgs |-> [sender |-> i, text |-> <<CmtText(i)>>]]

\* ------------------------------------------------------------------------
\* Further properties of the listening control (checked under SpecListen)
\* ------------------------------------------------------------------------
\* C36: at most one listener thread is running at any time, and once
\* stop_listening has returned no listener thread is inside an iteration on
\* the serial line.
C36_OneListenerNoneAfterStop ==
    /\ Cardinality({k \in 1..kcount : Alive(k)}) <= 1
    /\ (kreq = "none" /\ kdone = "stop") =>
           \A k \in 1..kcount : ktask[k] # "iter"

\* C37: when start_listening has returned and the listening flag is true, a
\* listener thread is running.
C37_FlagTrueMeansListenerRuns ==
    (kreq = "none" /\ kdone = "start" /\ listening) =>
        \E k \in 1..kcount : Alive(k)

\* ------------------------------------------------------------------------
\* received_sms_queue: _sms_listener puts, get_received_messages drains
\* ------------------------------------------------------------------------
MaxQueued == 3           \* records the listener puts on the queue
MaxGets == 3             \* calls of get_received_messages

queueFrame ==
    <<baseVars, sampVars, setupVars, dbVars, cmtVars, checkVars, reportVars>>

QueueOthers == SampIdle /\ SetupIdle /\ DbIdle /\ CmtIdle /\ CheckIdle /\ ReportIdle

\* the request threads that call get_received_messages
QueueCallers == {"a", "b"}

InitQueue ==
    /\ BaseIdle
    /\ QueueOthers
    /\ wqueue = <<>>
    /\ wput = 0
    /\ wpc = [t \in QueueCallers |-> "idle"]
    /\ wlocal = [t \in QueueCallers |-> <<>>]
    /\ wgets = 0
    /\ wreturned = <<>>

DequeuePeek(q) == q

\* Queue.get_nowait() takes the head off the queue under the queue's mutex
Dequeue(q) == Tail(q)

\* _sms_listener: self.received_sms_queue.put(sms)
QueuePut ==
    /\ wput < MaxQueued
    /\ wput' = wput + 1
    /\ wqueue' = Append(wqueue, wput + 1)
    /\ UNCHANGED <<wpc, wlocal, wgets, wreturned, queueFrame>>

\* get_received_messages: messages = []
QueueGetStart(t) ==
    /\ wpc[t] = "idle"
    /\ wgets < MaxGets
    /\ wgets' = wgets + 1
    /\ wpc' = [wpc EXCEPT ![t] = "loop"]
    /\ wlocal' = [wlocal EXCEPT ![t] = <<>>]
    /\ UNCHANGED <<wqueue, wput, wreturned, queueFrame>>

\* one turn of "while True": get_nowait() gives a record, which is appended;
\* or it raises Empty and messages is returned
QueueGetNowait(t) ==
    /\ wpc[t] = "loop"
    /\ IF wqueue # <<>>
       THEN /\ wlocal' = [wlocal EXCEPT ![t] = Append(@, Head(wqueue))]
            /\ wqueue' = Dequeue(wqueue)
            /\ UNCHANGED <<wpc, wreturned>>
       ELSE /\ wreturned' = Append(wreturned, [by |-> t, list |-> wlocal[t]])
            /\ wlocal' = [wlocal EXCEPT ![t] = <<>>]
            /\ wpc' = [wpc EXCEPT ![t] = "idle"]
            /\ UNCHANGED wqueue
    /\ UNCHANGED <<wput, wgets, queueFrame>>

NextQueue ==
    \/ QueuePut
    \/ \E t \in QueueCallers : QueueGetStart(t)
    \/ \E t \in QueueCallers : QueueGetNowait(t)

SpecQueue == InitQueue /\ [][NextQueue]_vars

\* C38: every record put on the queue is in exactly one place (the queue,
\* the list of one running call, or one returned list) and there once, and
\* the queue and every list hold their records in the order of put.
C38_EachRecordReturnedOnceInOrder ==
    LET Increasing(s) == \A i, j \in 1..Len(s) : i < j => s[i] < s[j]
        InQueue(r) == {i \in 1..Len(wqueue) : wqueue[i] = r}
        InLocal(r) == {<<t, i>> \in QueueCallers \X (1..MaxQueued) :
                          i <= Len(wlocal[t]) /\ wlocal[t][i] = r}
        InReturned(r) == {<<j, i>> \in (1..Len(wreturned)) \X (1..MaxQueued) :
                             i <= Len(wreturned[j].list)
                             /\ wreturned[j].list[i] = r}
    IN  /\ \A r \in 1..wput :
              Cardinality(InQueue(r)) + Cardinality(InLocal(r))
                  + Cardinality(InReturned(r)) = 1
        /\ Increasing(wqueue)
        /\ \A t \in QueueCallers : Increasing(wlocal[t])
        /\ \A j \in 1..Len(wreturned) : Increasing(wreturned[j].list)

\* C38 witness: two calls ran at once while the listener was putting; one
\* returned the first and the third record, the other the second.
C38_Witness ==
    /\ wqueue = <<>>
    /\ \E i, j \in 1..Len(wreturned) :
          /\ wreturned[i].by # wreturned[j].by
          /\ wreturned[i].list = <<1, 3>>
          /\ wreturned[j].list = <<2>>

\* ------------------------------------------------------------------------
\* check_battery_and_shutdown, called by battery_monitor_thread
\* ------------------------------------------------------------------------
MaxChecks == 3                   \* checks in a behaviour
LowBatteryThreshold == 3300      \* LOW_BATTERY_THRESHOLD = 3.3 V
BatteryWarningThreshold == 3500  \* BATTERY_WARNING_THRESHOLD = 3.5 V

checkFrame ==
    <<baseVars, sampVars, setupVars, dbVars, cmtVars, queueVars, reportVars>>

CheckOthers == SampIdle /\ SetupIdle /\ DbIdle /\ CmtIdle /\ QueueIdle /\ ReportIdle

\* what get_battery_voltage gives the check: no result, or a voltage in
\* thousandths of a volt
CheckedVoltages ==
    {<<>>} \cup {<<v>> : v \in {4, 3299, 3300, 3301, 3400, 3500, 3501, 4150}}

InitCheck ==
    /\ BaseIdle
    /\ CheckOthers
    /\ henabled \in BOOLEAN
    /\ hchecks = 0
    /\ hvolt = <<>>
    /\ hwarn = 0
    /\ hshut = 0
    /\ hprev = <<0, 0>>

WarnsAtOrBelow(v) == v <= BatteryWarningThreshold

\* voltage <= BATTERY_WARNING_THRESHOLD and voltage > LOW_BATTERY_THRESHOLD
Warns(v) == v <= BatteryWarningThreshold /\ v > LowBatteryThreshold

\* voltage <= LOW_BATTERY_THRESHOLD
Critical(v) == v <= LowBatteryThreshold

\* check_battery_and_shutdown(): one call, with what the sampler gave it
CheckBatteryAndShutdown(sample) ==
    /\ hchecks < MaxChecks
    /\ hchecks' = hchecks + 1
    /\ hvolt' = sample
    /\ hprev' = <<hwarn, hshut>>
    /\ IF sample = <<>>
       THEN UNCHANGED <<hwarn, hshut>>
       ELSE /\ hwarn' = IF Warns(sample[1]) THEN hwarn + 1 ELSE hwarn
            /\ hshut' = IF Critical(sample[1]) /\ henabled
                        THEN hshut + 1 ELSE hshut
    /\ UNCHANGED <<henabled, checkFrame>>

NextCheck == \E sample \in CheckedVoltages : CheckBatteryAndShutdown(sample)

SpecCheck == InitCheck /\ [][NextCheck]_vars

\* C39: a check initiates a shutdown only when it sampled a voltage at or
\* below the low threshold and automatic shutdown is enabled; it adds one
\* to the warning counter exactly when the voltage is above the low
\* threshold and at or below the warning threshold, and leaves the counter
\* alone when no voltage was sampled.
C39_ShutdownOnlyWhenLowWarningCounted ==
    hchecks > 0 =>
        /\ hshut # hprev[2] =>
              (hvolt # <<>> /\ hvolt[1] <= 3300 /\ henabled)
        /\ IF hvolt # <<>> /\ hvolt[1] > 3300 /\ hvolt[1] <= 3500
           THEN hwarn = hprev[1] + 1
           ELSE hwarn = hprev[1]

\* C39 witness: with automatic shutdown enabled, a check at 3.4 V counted a
\* warning, and a later check at 3.3 V initiated the shutdown and did not
\* count one.
C39_Witness ==
    /\ henabled
    /\ hvolt = <<3300>>
    /\ hprev = <<1, 0>>
    /\ hwarn = 1
    /\ hshut = 1

\* ------------------------------------------------------------------------
\* The periodic status report: sms_report_thread, and the requests of the
\* API server that share its settings
\* ------------------------------------------------------------------------
MaxClock == 5          \* ticks of the clock in a behaviour
MaxReportChecks == 3   \* checks of the scheduler in a behaviour
ReportInterval == 2    \* SMS_REPORT_INTERVAL, in ticks

reportFrame ==
    <<baseVars, sampVars, setupVars, dbVars, cmtVars, queueVars, checkVars>>

ReportOthers == SampIdle /\ SetupIdle /\ DbIdle /\ CmtIdle /\ QueueIdle /\ CheckIdle

InitReport ==
    /\ BaseIdle
    /\ ReportOthers
    /\ enow = ReportInterval
    /\ eenabled \in BOOLEAN
    /\ erecipient \in BOOLEAN
    /\ elast \in {0, ReportInterval}
    /\ epc = "sleep"
    /\ ecur = 0
    /\ echecks = 0
    /\ esent = <<>>

\* the clock moves on, at any point of any thread
ReportTick ==
    /\ enow < MaxClock
    /\ enow' = enow + 1
    /\ UNCHANGED <<eenabled, erecipient, elast, epc, ecur, echecks, esent,
                   reportFrame>>

\* current_time - SMS_REPORT_LAST_SENT >= SMS_REPORT_INTERVAL
ReportDue(now, last) == now - last >= ReportInterval

\* check_and_send_report() up to the decision to send: the settings and
\* the last-sent time are read here and not again
ReportCheck ==
    /\ epc = "sleep"
    /\ echecks < MaxReportChecks
    /\ echecks' = echecks + 1
    /\ IF eenabled /\ erecipient /\ ReportDue(enow, elast)
       THEN /\ epc' = "report"
            /\ ecur' = enow
       ELSE UNCHANGED <<epc, ecur>>
    /\ UNCHANGED <<enow, eenabled, erecipient, elast, esent, reportFrame>>

\* check_and_send_report() from generate_status_report() on: send_sms
\* returns ok, and the last-sent time becomes the time of the check
ReportSend(ok) ==
    /\ epc = "report"
    /\ epc' = "sleep"
    /\ elast' = IF ok THEN ecur ELSE elast
    /\ esent' = [at |-> enow, last |-> elast, after |-> elast',
                 enabled |-> eenabled /\ erecipient, ok |-> ok]
    /\ UNCHANGED <<enow, eenabled, erecipient, ecur, echecks, reportFrame>>

\* send_report_now(): POST /api/sms-reports/send-now, to the configured
\* recipient or to one of its own
SendReportNow(custom, ok) ==
    /\ custom \/ erecipient
    /\ elast' = IF ok /\ ~custom THEN enow ELSE elast
    /\ UNCHANGED <<enow, eenabled, erecipient, epc, ecur, echecks, esent,
                   reportFrame>>

\* update_sms_report_config(): POST /api/sms-reports/config
UpdateSmsReportConfig(enabled, recipient) ==
    /\ eenabled' = enabled
    /\ erecipient' = recipient
    /\ UNCHANGED <<enow, elast, epc, ecur, echecks, esent, reportFrame>>

NextReport ==
    \/ ReportTick
    \/ ReportCheck
    \/ \E ok \in BOOLEAN : ReportSend(ok)
    \/ \E custom \in BOOLEAN, ok \in BOOLEAN : SendReportNow(custom, ok)
    \/ \E enabled \in BOOLEAN, recipient \in BOOLEAN :
           UpdateSmsReportConfig(enabled, recipient)

SpecReport == InitReport /\ [][NextReport]_vars

====
